---- MODULE Spec2Model ----
(***************************************************************************)
(* A model of launchbox2playnite (src/src/launchbox2playnite/main.py).     *)
(*                                                                         *)
(*   Spec      import_launchbox_exo: the parallel parse stage (pool        *)
(*             workers, the progress queue and its listener thread), the   *)
(*             merge and the three dumps.                                  *)
(*   SpecDL    damerau_levenshtein applied to bounded strings.             *)
(*   SpecFuzzy find_fuzzy_image over bounded directory listings.           *)
(*   SpecCand  media_name_candidates applied to bounded titles; the sets   *)
(*             it iterates are walked in every order.                      *)
(***************************************************************************)
EXTENDS Integers, Sequences, FiniteSets, TLC

\* ------------------------------------------------------------------ bounds

\* Most platform XML files in PLATFORMS_DIR.
MaxFiles == 2
\* Most <Game> nodes in one platform file.
MaxGames == 1
\* Most CPUs os.cpu_count() reports.
MaxCpu == 2
\* Longest string handed to damerau_levenshtein.
MaxLen == 3
\* Largest max_distance handed to damerau_levenshtein.
MaxK == 2
\* Most files under the folder find_fuzzy_image searches.
MaxDirFiles == 2
\* Longest title handed to media_name_candidates.
MaxTitleLen == 2
\* Longest title that two processes expand.
MaxTwiceLen == 1
\* Most folders first_from visits for one asset.
MaxFolders == 2
\* Most files under one of these folders.
MaxFolderFiles == 1
\* Most processes that call normalize_cover_image, each for its own cover.
MaxCallers == 2
\* Latest time of the clock.
MaxClock == 2
\* Most <Parent> rows of Parents.xml.
MaxRows == 2

\* ---------------------------------------------------------------- helpers

Min(x, y) == IF x <= y THEN x ELSE y
Max(x, y) == IF x >= y THEN x ELSE y

\* ------------------------------------------------------------ strings

\* str.replace(old, new) for a one-character old.
RECURSIVE Replace(_, _, _)
Replace(s, old, new) ==
    IF s = <<>> THEN <<>>
    ELSE (IF Head(s) = old THEN new ELSE <<Head(s)>>) \o Replace(Tail(s), old, new)

Whitespace == {" "}

\* str.strip()
RECURSIVE LStrip(_)
LStrip(s) == IF s # <<>> /\ Head(s) \in Whitespace THEN LStrip(Tail(s)) ELSE s
RECURSIVE RStrip(_)
RStrip(s) ==
    IF s # <<>> /\ s[Len(s)] \in Whitespace
      THEN RStrip(SubSeq(s, 1, Len(s) - 1))
      ELSE s
Strip(s) == RStrip(LStrip(s))

\* str.lower()
LowerChar(ch) ==
    CASE ch = "A" -> "a"
      [] ch = "B" -> "b"
      [] ch = "C" -> "c"
      [] OTHER -> ch
Lower(s) == [n \in DOMAIN s |-> LowerChar(s[n])]

\* U+2019, the right single quotation mark.
RightQuote == "rsquo"

\* Lines 340-349.
normalize_titleNoStrip(t) == Replace(Replace(t, ":", <<>>), "?", <<>>)
normalize_title(t) == Strip(Replace(Replace(t, ":", <<>>), "?", <<>>))

\* Lines 407-418.
normalized_media_key(value) ==
    Lower(normalize_title(
        Replace(Replace(Replace(value, "_", <<" ">>), "-", <<" ">>),
                RightQuote, <<"'">>)))

\* str.isalnum() on the characters used here.
IsAlnum(ch) == ch \in {"a", "b", "c", "d", "A", "B", "C"}

\* ------------------------------------------------- import_launchbox_exo

VARIABLES
    dirExists,              \* PLATFORMS_DIR.exists()
    platform_files,         \* sorted(PLATFORMS_DIR.glob("*.xml")): files 1..N
    fileGames,              \* file -> number of <Game> nodes in it
    fileFault,              \* file -> how parsing it goes
    cpu_count,              \* os.cpu_count() or 1
    worker_count,
    mainPc,                 \* position of import_launchbox_exo
    taskPc,                 \* file -> state of its pool task
    games,                  \* file -> the worker's local list `games`
    resultQ,                \* pool.imap_unordered: finished tasks, first finished first
    platform_results,       \* dict (insertion ordered): <<path, result>> pairs
    platform_bar,
    progress_queue,         \* manager.Queue()
    game_bar,               \* tqdm bar the listener updates
    listenerPc,             \* progress_thread
    manager,
    pending,                \* exception travelling through except/finally
    error,                  \* what the run ended with
    playnite_games,
    games_by_lb_id,
    games_by_platform_norm,
    rootFound,              \* ROOT_CATEGORY_NAME known to Parents.xml
    outputs                 \* the output files dump_yaml has written

orchVars == <<dirExists, platform_files, fileGames, fileFault, cpu_count,
              worker_count, mainPc, taskPc, games, resultQ, platform_results,
              platform_bar, progress_queue, game_bar, listenerPc, manager,
              pending, error, playnite_games, games_by_lb_id,
              games_by_platform_norm, rootFound, outputs>>

\* damerau_levenshtein(a, b, max_distance) and the call with a and b swapped.
VARIABLES
    a,
    b,
    max_distance,
    dlPc,
    dlRet,                  \* damerau_levenshtein(a, b, max_distance)
    dlRetSwapped            \* damerau_levenshtein(b, a, max_distance)

dlVars == <<a, b, max_distance, dlPc, dlRet, dlRetSwapped>>

\* find_fuzzy_image(folder, title, extensions, max_distance).
VARIABLES
    title,
    folderExists,           \* folder.exists()
    listing,                \* the files under folder, in the order glob yields them
    fzMaxDistance,          \* the argument max_distance
    fzPc,
    fzIdx,                  \* position in the enumeration of the two loops
    best_path,
    best_distance,
    fzRet

fzVars == <<folderExists, listing, fzMaxDistance, fzPc, fzIdx, best_path,
            best_distance, fzRet>>

\* media_name_candidates(title).
VARIABLES
    candPc,
    rawTodo,                \* raw variants the outer loop has yet to visit
    variantTodo,            \* variants of the current base the inner loop has yet to visit
    candidates,
    candCall,               \* 1: the first call for the title, 2: the call in another process
    candidatesBefore        \* what the first call returned

candVars == <<candPc, rawTodo, variantTodo, candidates, candCall, candidatesBefore>>

\* collect_images.first_from(*subfolders) for one title.
VARIABLES
    folders,                \* the folders first_from visits, in order: None or a listing
    ffPc,
    ffIdx,                  \* position in folders
    ffRet                   \* the path returned: <<folder, file>>

ffVars == <<folders, ffPc, ffIdx, ffRet>>

\* normalize_cover_image(title, cover_path) called by several processes.
VARIABLES
    now,                    \* the clock that stamps a written file
    sources,                \* the cover files found, one per caller: stem, mtime, readable
    dest,                   \* the files of COVER_DIR: filename -> mtime and content
    coverPc,                \* position of each caller
    coverLog                \* what each caller's calls returned, in order

coverVars == <<now, sources, dest, coverPc, coverLog>>

\* parse_parents and build_folder_tree_from_parents, as import_launchbox_exo
\* calls them.
VARIABLES
    parentsFile,            \* PARENTS_FILE: "missing", "malformed" or "ok"
    rows,                   \* its <Parent> rows, in document order
    playlistFiles,          \* the files of PLAYLIST_DIR, in glob order
    playlists,              \* the list parse_playlists returned
    playlists_by_lb_id,     \* the map parse_playlists returned
    rowIdx,                 \* position of the loop of line 1135
    edges,                  \* the five maps and the root categories so far
    treePc,
    folderTree              \* `folders`, what build_folder_tree_from_parents returned

treeVars == <<parentsFile, rows, playlistFiles, playlists, playlists_by_lb_id, rowIdx,
             edges, treePc, folderTree>>

\* parse_launchbox_game, as the loop of _process_platform_file calls it.
VARIABLES
    gameElem,               \* the <Game> element and what the media lookups gave
    game,                   \* the dictionary built for it
    gamePc

gameVars == <<gameElem, game, gamePc>>

\* The variables of the media resolver, the image cache, the folder tree and
\* the game parser.
extVars == <<ffVars, coverVars, treeVars, gameVars>>
exceptFirst == <<coverVars, treeVars, gameVars>>
exceptCover == <<ffVars, treeVars, gameVars>>
exceptTree == <<ffVars, coverVars, gameVars>>
exceptGame == <<ffVars, coverVars, treeVars>>

\* The variables of the pure functions' specifications.
pureVars == <<dlVars, title, fzVars, candVars, extVars>>

vars == <<orchVars, pureVars>>

NoError == [type |-> "none", stage |-> "", text |-> "", file |-> 0]

\* How _process_platform_file can go for one file.
Faults == {"ok", "ParseError", "ValueError", "GameError"}

\* The Playnite dictionary parse_launchbox_game returns for game j of file i:
\* "Id" is a fresh uuid4, "Platform" the file stem, "LaunchBoxId" the <ID> text.
\* The same LaunchBox id may occur in several files.
Game(i, j) == [Id |-> <<i, j>>, Platform |-> i, LaunchBoxId |-> j]

\* str(exc) of the exception a worker raises.
ExcOf(i) ==
    CASE fileFault[i] = "ValueError" ->
            [type |-> "ValueError", text |-> "has no root element", file |-> i]
      [] fileFault[i] = "ParseError" ->
            [type |-> "ParseError", text |-> "syntax error: line 1, column 0", file |-> 0]
      [] OTHER ->
            [type |-> "GameError", text |-> "error while parsing a game", file |-> 0]

Files == 1..Len(platform_files)

\* progress_queue.put / get: a FIFO queue.
QueuePutFront(q, v) == <<v>> \o q
QueuePut(q, v) == Append(q, v)

Count(n) == [kind |-> "count", n |-> n]
None == [kind |-> "None", n |-> 0]

\* msg = f"Failed to process platform files: {exc}"
RuntimeErrorMsgNoCause(exc) ==
    [type |-> "RuntimeError", stage |-> "Failed to process platform files",
     text |-> "", file |-> 0]
RuntimeErrorMsg(exc) ==
    [type |-> "RuntimeError", stage |-> "Failed to process platform files",
     text |-> exc.text, file |-> exc.file]

\* worker_count = max(1, min(len(platform_files), os.cpu_count() or 1))
WorkerCount(n, cpus) == Max(1, Min(n, cpus))

\* A platform file that does not parse holds no game; one whose game
\* raises holds at least that game.
FileShapes ==
    {s \in [n : 0..MaxGames, fault : Faults] :
        /\ s.fault \in {"ParseError", "ValueError"} => s.n = 0
        /\ s.fault = "GameError" => s.n >= 1}

OrchInit ==
    /\ dirExists \in BOOLEAN
    /\ \E n \in 0..MaxFiles :
         /\ platform_files = [i \in 1..n |-> i]
         /\ \E shape \in [1..n -> FileShapes] :
              /\ fileGames = [i \in 1..n |-> shape[i].n]
              /\ fileFault = [i \in 1..n |-> shape[i].fault]
         /\ taskPc = [i \in 1..n |-> "idle"]
         /\ games = [i \in 1..n |-> <<>>]
    /\ (~dirExists => Len(platform_files) = 0)
    /\ cpu_count \in 1..MaxCpu
    /\ worker_count = 0
    /\ mainPc = "start"
    /\ resultQ = <<>>
    /\ platform_results = <<>>
    /\ platform_bar = 0
    /\ progress_queue = <<>>
    /\ game_bar = 0
    /\ listenerPc = "unstarted"
    /\ manager = "none"
    /\ pending = NoError
    /\ error = NoError
    /\ playnite_games = <<>>
    /\ games_by_lb_id = <<>>
    /\ games_by_platform_norm = <<>>
    /\ rootFound = FALSE
    /\ outputs = {}

\* No call of damerau_levenshtein is under way.
DlIdle ==
    /\ a = <<>>
    /\ b = <<>>
    /\ max_distance = 0
    /\ dlPc = "idle"
    /\ dlRet = 0
    /\ dlRetSwapped = 0

\* str(file) of the file at position n of the listing; no path.
Path(n) == <<n>>
NoPath == <<>>

\* No call of find_fuzzy_image is under way.
FuzzyIdle ==
    /\ folderExists = FALSE
    /\ listing = <<>>
    /\ fzMaxDistance = 0
    /\ fzPc = "idle"
    /\ fzIdx = 0
    /\ best_path = NoPath
    /\ best_distance = 0
    /\ fzRet = NoPath

\* No call of media_name_candidates is under way.
CandIdle ==
    /\ candPc = "idle"
    /\ rawTodo = {}
    /\ variantTodo = {}
    /\ candidates = <<>>
    /\ candCall = 0
    /\ candidatesBefore = <<>>

\* No call of first_from is under way.
FirstIdle ==
    /\ folders = <<>>
    /\ ffPc = "idle"
    /\ ffIdx = 0
    /\ ffRet = NoPath

\* No call of normalize_cover_image is under way.
CoverIdle ==
    /\ now = 0
    /\ sources = <<>>
    /\ dest = <<>>
    /\ coverPc = <<>>
    /\ coverLog = <<>>

\* Parents.xml is not being read.
TreeIdle ==
    /\ parentsFile = "missing"
    /\ rows = <<>>
    /\ playlistFiles = <<>>
    /\ playlists = <<>>
    /\ playlists_by_lb_id = <<>>
    /\ rowIdx = 0
    /\ edges = <<>>
    /\ treePc = "idle"
    /\ folderTree = <<>>

\* No call of parse_launchbox_game is under way.
GameIdle ==
    /\ gameElem = <<>>
    /\ game = <<>>
    /\ gamePc = "idle"

ExtIdle == FirstIdle /\ CoverIdle /\ TreeIdle /\ GameIdle

Init == OrchInit /\ DlIdle /\ title = <<>> /\ FuzzyIdle /\ CandIdle /\ ExtIdle

\* Lines 1290-1297: the two configuration errors.
ConfigError ==
    /\ mainPc = "start"
    /\ ~dirExists \/ Len(platform_files) = 0
    /\ mainPc' = "SystemExit"
    /\ error' = [type |-> "SystemExit", stage |-> "config",
                 text |-> IF ~dirExists THEN "Platforms dir not found"
                          ELSE "No platform XML files found",
                 file |-> 0]
    /\ UNCHANGED <<pureVars, dirExists, platform_files, fileGames, fileFault, cpu_count,
                   worker_count, taskPc, games, resultQ, platform_results,
                   platform_bar, progress_queue, game_bar, listenerPc, manager,
                   pending, playnite_games, games_by_lb_id,
                   games_by_platform_norm, rootFound, outputs>>

\* The stage started without the tests of lines 1290-1297.
StartStageUnchecked ==
    /\ mainPc = "start"
    /\ manager' = "up"
    /\ listenerPc' = "running"
    /\ worker_count' = WorkerCount(Len(platform_files), cpu_count)
    /\ taskPc' = [i \in Files |-> "queued"]
    /\ mainPc' = "pool"
    /\ UNCHANGED <<pureVars, dirExists, platform_files, fileGames, fileFault, cpu_count,
                   games, resultQ, platform_results, platform_bar,
                   progress_queue, game_bar, pending, error, playnite_games,
                   games_by_lb_id, games_by_platform_norm, rootFound, outputs>>

\* Lines 1299-1320: the manager, its queue, the listener thread, the pool and
\* the tasks handed to imap_unordered.
StartStage ==
    /\ mainPc = "start"
    /\ dirExists /\ Len(platform_files) > 0
    /\ manager' = "up"
    /\ listenerPc' = "running"
    /\ worker_count' = WorkerCount(Len(platform_files), cpu_count)
    /\ taskPc' = [i \in Files |-> "queued"]
    /\ mainPc' = "pool"
    /\ UNCHANGED <<pureVars, dirExists, platform_files, fileGames, fileFault, cpu_count,
                   games, resultQ, platform_results, platform_bar,
                   progress_queue, game_bar, pending, error, playnite_games,
                   games_by_lb_id, games_by_platform_norm, rootFound, outputs>>

Running == {i \in Files : taskPc[i] = "running"}
Queued == {i \in Files : taskPc[i] = "queued"}

\* A free pool process takes the next task of the task queue.
WorkerTake(i) ==
    /\ mainPc = "pool"
    /\ i \in Queued
    /\ \A k \in Queued : i <= k
    /\ Cardinality(Running) < worker_count
    /\ taskPc' = [taskPc EXCEPT ![i] = "running"]
    /\ UNCHANGED <<pureVars, dirExists, platform_files, fileGames, fileFault, cpu_count,
                   worker_count, mainPc, games, resultQ, platform_results,
                   platform_bar, progress_queue, game_bar, listenerPc, manager,
                   pending, error, playnite_games, games_by_lb_id,
                   games_by_platform_norm, rootFound, outputs>>

\* The game the worker's loop is about to parse raises.
RaisesNow(i) ==
    \/ fileFault[i] \in {"ParseError", "ValueError"}
    \/ fileFault[i] = "GameError" /\ Len(games[i]) = fileGames[i] - 1

\* Lines 963-979: one iteration of the loop over game_nodes, with
\* progress_cb(1) = progress_queue.put(1).
WorkerParseGame(i) ==
    /\ mainPc = "pool"
    /\ taskPc[i] = "running"
    /\ ~RaisesNow(i)
    /\ Len(games[i]) < fileGames[i]
    /\ games' = [games EXCEPT ![i] = Append(@, Game(i, Len(@) + 1))]
    /\ progress_queue' = QueuePut(progress_queue, Count(1))
    /\ UNCHANGED <<pureVars, dirExists, platform_files, fileGames, fileFault, cpu_count,
                   worker_count, mainPc, taskPc, resultQ, platform_results,
                   platform_bar, game_bar, listenerPc, manager, pending, error,
                   playnite_games, games_by_lb_id, games_by_platform_norm,
                   rootFound, outputs>>

\* Lines 981, 1002: the worker returns (path, platform_name, games, lb_map).
WorkerReturn(i) ==
    /\ mainPc = "pool"
    /\ taskPc[i] = "running"
    /\ ~RaisesNow(i)
    /\ Len(games[i]) = fileGames[i]
    /\ taskPc' = [taskPc EXCEPT ![i] = "done"]
    /\ resultQ' = Append(resultQ, [path |-> i, ok |-> TRUE, games |-> games[i],
                                   exc |-> NoError])
    /\ UNCHANGED <<pureVars, dirExists, platform_files, fileGames, fileFault, cpu_count,
                   worker_count, mainPc, games, platform_results, platform_bar,
                   progress_queue, game_bar, listenerPc, manager, pending, error,
                   playnite_games, games_by_lb_id, games_by_platform_norm,
                   rootFound, outputs>>

\* Lines 951-955, 964: the worker raises; the pool hands the exception on.
WorkerRaise(i) ==
    /\ mainPc = "pool"
    /\ taskPc[i] = "running"
    /\ RaisesNow(i)
    /\ taskPc' = [taskPc EXCEPT ![i] = "failed"]
    /\ resultQ' = Append(resultQ, [path |-> i, ok |-> FALSE, games |-> <<>>,
                                   exc |-> ExcOf(i)])
    /\ UNCHANGED <<pureVars, dirExists, platform_files, fileGames, fileFault, cpu_count,
                   worker_count, mainPc, games, platform_results, platform_bar,
                   progress_queue, game_bar, listenerPc, manager, pending, error,
                   playnite_games, games_by_lb_id, games_by_platform_norm,
                   rootFound, outputs>>

\* Pool.__exit__ -> terminate(): tasks not finished are killed.
Terminated(tp) ==
    [i \in DOMAIN tp |-> IF tp[i] \in {"queued", "running"} THEN "killed" ELSE tp[i]]

\* Where control goes when the loop over imap_unordered raises: except
\* (line 1333) builds the RuntimeError, then the finally block runs.
AfterExceptionNoFinally == "RuntimeError"
AfterException == "finally_put"

\* Lines 1321-1332: the next finished task is collected.
CollectResult ==
    /\ mainPc = "pool"
    /\ resultQ # <<>>
    /\ Head(resultQ).ok
    /\ platform_results' = Append(platform_results,
                                  <<Head(resultQ).path, Head(resultQ)>>)
    /\ platform_bar' = platform_bar + 1
    /\ resultQ' = Tail(resultQ)
    /\ UNCHANGED <<pureVars, dirExists, platform_files, fileGames, fileFault, cpu_count,
                   worker_count, mainPc, taskPc, games, progress_queue, game_bar,
                   listenerPc, manager, pending, error, playnite_games,
                   games_by_lb_id, games_by_platform_norm, rootFound, outputs>>

\* Lines 1326, 1333-1335: the next finished task re-raises its exception in
\* the main process.
CollectException ==
    /\ mainPc = "pool"
    /\ resultQ # <<>>
    /\ ~Head(resultQ).ok
    /\ resultQ' = Tail(resultQ)
    /\ taskPc' = Terminated(taskPc)
    /\ pending' = RuntimeErrorMsg(Head(resultQ).exc)
    /\ mainPc' = AfterException
    /\ error' = IF mainPc' = "RuntimeError" THEN pending' ELSE error
    /\ UNCHANGED <<pureVars, dirExists, platform_files, fileGames, fileFault, cpu_count,
                   worker_count, games, platform_results, platform_bar,
                   progress_queue, game_bar, listenerPc, manager,
                   playnite_games, games_by_lb_id, games_by_platform_norm,
                   rootFound, outputs>>

\* Line 1326: imap_unordered is exhausted once every task's result was taken.
PoolExhausted ==
    /\ mainPc = "pool"
    /\ Len(platform_results) = Len(platform_files)
    /\ taskPc' = Terminated(taskPc)
    /\ mainPc' = "finally_put"
    /\ UNCHANGED <<pureVars, dirExists, platform_files, fileGames, fileFault, cpu_count,
                   worker_count, games, resultQ, platform_results, platform_bar,
                   progress_queue, game_bar, listenerPc, manager, pending, error,
                   playnite_games, games_by_lb_id, games_by_platform_norm,
                   rootFound, outputs>>

\* Line 1337.
FinallyPut ==
    /\ mainPc = "finally_put"
    /\ progress_queue' = QueuePut(progress_queue, None)
    /\ mainPc' = "finally_join"
    /\ UNCHANGED <<pureVars, dirExists, platform_files, fileGames, fileFault, cpu_count,
                   worker_count, taskPc, games, resultQ, platform_results,
                   platform_bar, game_bar, listenerPc, manager, pending, error,
                   playnite_games, games_by_lb_id, games_by_platform_norm,
                   rootFound, outputs>>

\* Line 1338: join returns once the listener thread has ended.
FinallyJoin ==
    /\ mainPc = "finally_join"
    /\ listenerPc = "done"
    /\ mainPc' = "finally_shutdown"
    /\ UNCHANGED <<pureVars, dirExists, platform_files, fileGames, fileFault, cpu_count,
                   worker_count, taskPc, games, resultQ, platform_results,
                   platform_bar, progress_queue, game_bar, listenerPc, manager,
                   pending, error, playnite_games, games_by_lb_id,
                   games_by_platform_norm, rootFound, outputs>>

\* Where control goes at the end of the finally block: the pending
\* RuntimeError propagates out of import_launchbox_exo, or the merge starts.
AfterFinallySwallow(exc) == "merge"
AfterFinally(exc) == IF exc # NoError THEN "RuntimeError" ELSE "merge"

\* Lines 1339-1341.
FinallyShutdown ==
    /\ mainPc = "finally_shutdown"
    /\ manager' = "down"
    /\ mainPc' = AfterFinally(pending)
    /\ error' = IF mainPc' = "RuntimeError" THEN pending ELSE error
    /\ UNCHANGED <<pureVars, dirExists, platform_files, fileGames, fileFault, cpu_count,
                   worker_count, taskPc, games, resultQ, platform_results,
                   platform_bar, progress_queue, game_bar, listenerPc, pending,
                   playnite_games, games_by_lb_id, games_by_platform_norm,
                   rootFound, outputs>>

\* Lines 1010-1014: one iteration of _drain_progress_queue.
ListenerGet ==
    /\ listenerPc = "running"
    /\ progress_queue # <<>>
    /\ progress_queue' = Tail(progress_queue)
    /\ IF Head(progress_queue) = None
         THEN listenerPc' = "done" /\ UNCHANGED game_bar
         ELSE game_bar' = game_bar + Head(progress_queue).n /\ UNCHANGED listenerPc
    /\ UNCHANGED <<pureVars, dirExists, platform_files, fileGames, fileFault, cpu_count,
                   worker_count, mainPc, taskPc, games, resultQ, platform_results,
                   platform_bar, manager, pending, error, playnite_games,
                   games_by_lb_id, games_by_platform_norm, rootFound, outputs>>

\* platform_results[path]: the index of path's entry, 0 when there is none
\* (the lookup then raises KeyError).
ResultIndex(results, path) ==
    IF \E k \in DOMAIN results : results[k][1] = path
      THEN CHOOSE k \in DOMAIN results : results[k][1] = path
      ELSE 0

\* lb_map of one file: LaunchBox id -> game (lines 966-972).
LbMapOf(gs) ==
    [id \in {gs[k].LaunchBoxId : k \in DOMAIN gs} |->
        gs[CHOOSE k \in DOMAIN gs :
              /\ gs[k].LaunchBoxId = id
              /\ \A m \in DOMAIN gs : gs[m].LaunchBoxId = id => m <= k]]

\* dict.update
DictUpdate(d, u) ==
    [x \in DOMAIN d \cup DOMAIN u |-> IF x \in DOMAIN u THEN u[x] ELSE d[x]]

\* defaultdict(list)[key].extend(items)
ListExtend(d, key, items) ==
    [x \in DOMAIN d \cup {key} |->
        IF x = key THEN (IF key \in DOMAIN d THEN d[key] ELSE <<>>) \o items
        ELSE d[x]]

\* Lines 325-337.
RECURSIVE KeepAlnum(_)
KeepAlnum(s) ==
    IF s = <<>> THEN <<>>
    ELSE (IF IsAlnum(Head(s)) THEN <<Head(s)>> ELSE <<>>) \o KeepAlnum(Tail(s))

norm_key(s) == KeepAlnum(Lower(s))

\* Line 949: platform_file.stem of file i; the stems are distinct and rise
\* with the sorted order of the files.
FileStem(i) == <<"C", "!">> \o [k \in 1..(i - 1) |-> "d"]

\* Line 1347: norm_key(platform_name) of file i's platform.
PlatformNorm(i) == norm_key(FileStem(i))

\* Line 1343: the files the merge loop walks, in order.
MergeOrderByCompletion ==
    [k \in 1..Len(platform_results) |-> platform_results[k][1]]
MergeOrder == platform_files

\* Lines 1343-1349, from position k of `order` on: the three collections after
\* the loop, with keyError set when platform_results lacks a file.
RECURSIVE MergeFrom(_, _, _)
MergeFrom(order, k, acc) ==
    IF k > Len(order) THEN acc
    ELSE LET idx == ResultIndex(platform_results, order[k]) IN
         IF idx = 0 THEN [acc EXCEPT !.keyError = TRUE]
         ELSE LET gs == platform_results[idx][2].games IN
              MergeFrom(order, k + 1,
                  [games |-> acc.games \o gs,
                   by_lb_id |-> DictUpdate(acc.by_lb_id, LbMapOf(gs)),
                   by_platform_norm |->
                       ListExtend(acc.by_platform_norm, PlatformNorm(order[k]),
                                  [g \in DOMAIN gs |-> gs[g].Id]),
                   keyError |-> FALSE])

Merge ==
    /\ mainPc = "merge"
    /\ LET m == MergeFrom(MergeOrder, 1,
                    [games |-> playnite_games, by_lb_id |-> games_by_lb_id,
                     by_platform_norm |-> games_by_platform_norm,
                     keyError |-> FALSE])
       IN /\ playnite_games' = m.games
          /\ games_by_lb_id' = m.by_lb_id
          /\ games_by_platform_norm' = m.by_platform_norm
          /\ mainPc' = IF m.keyError THEN "KeyError" ELSE "dump_games"
          /\ error' = IF m.keyError
                        THEN [type |-> "KeyError", stage |-> "merge",
                              text |-> "", file |-> 0]
                        ELSE error
    /\ UNCHANGED <<pureVars, dirExists, platform_files, fileGames, fileFault, cpu_count,
                   worker_count, taskPc, games, resultQ, platform_results,
                   platform_bar, progress_queue, game_bar, listenerPc, manager,
                   pending, rootFound, outputs>>

\* Lines 1351-1353.
DumpGames ==
    /\ mainPc = "dump_games"
    /\ outputs' = outputs \cup {"games"}
    /\ mainPc' = "dump_playlists"
    /\ UNCHANGED <<pureVars, dirExists, platform_files, fileGames, fileFault, cpu_count,
                   worker_count, taskPc, games, resultQ, platform_results,
                   platform_bar, progress_queue, game_bar, listenerPc, manager,
                   pending, error, playnite_games, games_by_lb_id,
                   games_by_platform_norm, rootFound>>

\* A file of PLAYLIST_DIR: its stem, the child of the root that holds the
\* LaunchBox id of the playlist ("Id", "ID" or "none"), that id, and the
\* <GameId> texts of its <PlaylistGame> elements in document order.
PlaylistFile(stem, tag, lb_id, members) ==
    [stem |-> stem, tag |-> tag, lb_id |-> lb_id, members |-> members]

\* root.find(tag): the element with its text and the number of its child
\* elements, or None.
NoElement == [found |-> FALSE, text |-> <<>>, children |-> 0]
Find(file, tag) ==
    IF file.tag = tag THEN [found |-> TRUE, text |-> file.lb_id, children |-> 0]
    ELSE NoElement

\* bool(x) of what find returns: None is false, and an Element is true only
\* when it has child elements.
Truth(elem) == elem.found /\ elem.children > 0

\* x or y
Or(x, y) == IF Truth(x) THEN x ELSE y

\* Line 1052.
id_elem(file) == Or(Find(file, "Id"), Find(file, "ID"))

\* Lines 1064-1066: what one <GameId> adds to game_ids.
ResolveOrKeep(by_lb_id, lb_game_id) ==
    IF lb_game_id \in DOMAIN by_lb_id THEN <<by_lb_id[lb_game_id].Id>>
    ELSE <<<<lb_game_id>>>>
Resolve(by_lb_id, lb_game_id) ==
    IF lb_game_id \in DOMAIN by_lb_id THEN <<by_lb_id[lb_game_id].Id>> ELSE <<>>

\* Lines 1058-1066.
RECURSIVE game_ids(_, _)
game_ids(members, by_lb_id) ==
    IF members = <<>> THEN <<>>
    ELSE Resolve(by_lb_id, Head(members)) \o game_ids(Tail(members), by_lb_id)

\* Lines 1038-1077, from file k on; the uuid4 of the playlist of file k is
\* <<0, k>>.
RECURSIVE PlaylistsFrom(_, _, _, _)
PlaylistsFrom(files, k, by_lb_id, acc) ==
    IF k > Len(files) THEN acc
    ELSE LET file == files[k]
             elem == id_elem(file)
             playlist == [Id |-> <<0, k>>, Name |-> file.stem, Description |-> None,
                          GameIds |-> game_ids(file.members, by_lb_id),
                          LaunchBoxId |-> elem.text]
         IN  IF ~elem.found \/ elem.text = <<>>
               THEN PlaylistsFrom(files, k + 1, by_lb_id, acc)
               ELSE PlaylistsFrom(files, k + 1, by_lb_id,
                        [playlists |-> Append(acc.playlists, playlist),
                         playlists_by_lb_id |->
                             DictUpdate(acc.playlists_by_lb_id,
                                        [id \in {elem.text} |-> playlist])])

\* Lines 1020-1079.
parse_playlists(dir, by_lb_id) ==
    IF ~dir.exists THEN [playlists |-> <<>>, playlists_by_lb_id |-> <<>>]
    ELSE PlaylistsFrom(dir.files, 1, by_lb_id,
                       [playlists |-> <<>>, playlists_by_lb_id |-> <<>>])

\* The member lists of a playlist file: none, one LaunchBox id no game has
\* (0), and that id followed by the ids MaxGames, ..., 1.
MemberLists ==
    {<<>>, <<0>>, [k \in 1..(MaxGames + 1) |-> IF k = 1 THEN 0 ELSE MaxGames + 2 - k]}

\* The playlist directories import_launchbox_exo is run on: none, or one
\* with the file of playlist "a" and the file of playlist "b".
PlaylistDirs ==
    {[exists |-> FALSE, files |-> <<>>]}
        \cup {[exists |-> TRUE,
               files |-> <<PlaylistFile(<<"a">>, tag, <<"a">>, members),
                           PlaylistFile(<<"b">>, "ID", <<"b">>, <<>>)>>] :
                 tag \in {"Id", "ID", "none"}, members \in MemberLists}

\* Lines 1355-1359.
DumpPlaylists ==
    /\ mainPc = "dump_playlists"
    /\ \E dir \in PlaylistDirs :
         LET parsed == parse_playlists(dir, games_by_lb_id)
         IN  /\ playlistFiles' = dir.files
             /\ playlists' = parsed.playlists
             /\ playlists_by_lb_id' = parsed.playlists_by_lb_id
    /\ outputs' = outputs \cup {"playlists"}
    /\ mainPc' = "parents"
    /\ UNCHANGED <<dlVars, title, fzVars, candVars, ffVars, coverVars, gameVars,
                   parentsFile, rows,
                   rowIdx, edges, treePc, folderTree, dirExists, platform_files,
                   fileGames, fileFault, cpu_count,
                   worker_count, taskPc, games, resultQ, platform_results,
                   platform_bar, progress_queue, game_bar, listenerPc, manager,
                   pending, error, playnite_games, games_by_lb_id,
                   games_by_platform_norm, rootFound>>

\* ------------------------------------- Parents.xml and the folder tree

\* The code points of the characters used in names.
CharCode(ch) ==
    CASE ch = " " -> 32 [] ch = "!" -> 33 [] ch = "-" -> 45
      [] ch = "A" -> 65 [] ch = "B" -> 66 [] ch = "C" -> 67
      [] ch = "a" -> 97 [] ch = "b" -> 98 [] ch = "c" -> 99 [] ch = "d" -> 100

Codes(s) == [n \in DOMAIN s |-> CharCode(s[n])]

\* s < t for two sequences of integers, as Python compares str and list.
RECURSIVE IntSeqLess(_, _)
IntSeqLess(s, t) ==
    IF t = <<>> THEN FALSE
    ELSE IF s = <<>> THEN TRUE
    ELSE IF Head(s) # Head(t) THEN Head(s) < Head(t)
    ELSE IntSeqLess(Tail(s), Tail(t))

StrLess(s, t) == IntSeqLess(Codes(s), Codes(t))

\* sorted() of a set of names.
RECURSIVE SortedNames(_)
SortedNames(S) ==
    IF S = {} THEN <<>>
    ELSE LET m == CHOOSE x \in S : \A y \in S : ~StrLess(y, x)
         IN  <<m>> \o SortedNames(S \ {m})

\* sorted() of a list of game ids.
RECURSIVE SortedIdSet(_)
SortedIdSet(S) ==
    IF S = {} THEN <<>>
    ELSE LET m == CHOOSE x \in S : \A y \in S : ~IntSeqLess(y, x)
         IN  <<m>> \o SortedIdSet(S \ {m})

\* The ids of a member list are distinct uuid4 values, so sorting the list
\* is sorting its set.
SortedIds(ids) == SortedIdSet({ids[n] : n \in DOMAIN ids})

\* An empty field of a <Parent> row.
Empty == <<>>

\* defaultdict(set)[key].add(value)
SetAdd(d, key, value) ==
    [x \in DOMAIN d \cup {key} |->
        IF x = key THEN (IF key \in DOMAIN d THEN d[key] ELSE {}) \cup {value}
        ELSE d[x]]

\* dict.get(key, [])
GetSet(d, key) == IF key \in DOMAIN d THEN d[key] ELSE {}

\* Lines 1104-1110.
NoEdges ==
    [category_children_categories |-> <<>>,
     category_children_platforms |-> <<>>,
     category_children_playlists |-> <<>>,
     platform_children_platforms |-> <<>>,
     platform_children_playlists |-> <<>>,
     root_categories |-> {}]

\* Line 1144.
IsRootRowAnyParent(r) ==
    r.cat_name # Empty /\ r.platform_name = Empty /\ r.playlist_id = Empty
IsRootRow(r) ==
    r.cat_name # Empty /\ r.parent_cat = Empty /\ r.platform_name = Empty
        /\ r.playlist_id = Empty

\* Lines 1156 and 1160: the playlist id must be known.
KnownOrNot(id, known) == TRUE
Known(id, known) == id \in known

\* Lines 1136-1165: what one <Parent> row adds to the five maps and the set
\* of root categories; `known` is the key set of playlists_by_lb_id.
RowEffect(m, r, known) ==
    LET roots == IF IsRootRow(r) THEN m.root_categories \cup {r.cat_name}
                 ELSE m.root_categories
        ccc   == IF r.cat_name # Empty /\ r.parent_cat # Empty
                   THEN SetAdd(m.category_children_categories, r.parent_cat, r.cat_name)
                   ELSE m.category_children_categories
        ccp   == IF r.platform_name # Empty /\ r.parent_cat # Empty
                   THEN SetAdd(m.category_children_platforms, r.parent_cat, r.platform_name)
                   ELSE m.category_children_platforms
        ccpl  == IF r.playlist_id # Empty /\ r.parent_cat # Empty
                      /\ Known(r.playlist_id, known)
                   THEN SetAdd(m.category_children_playlists, r.parent_cat, r.playlist_id)
                   ELSE m.category_children_playlists
        pcpl  == IF r.playlist_id # Empty /\ r.parent_platform # Empty
                      /\ Known(r.playlist_id, known)
                   THEN SetAdd(m.platform_children_playlists, r.parent_platform,
                               r.playlist_id)
                   ELSE m.platform_children_playlists
        pcp   == IF r.platform_name # Empty /\ r.parent_platform # Empty
                   THEN SetAdd(m.platform_children_platforms, r.parent_platform,
                               r.platform_name)
                   ELSE m.platform_children_platforms
    IN  [category_children_categories |-> ccc,
         category_children_platforms |-> ccp,
         category_children_playlists |-> ccpl,
         platform_children_platforms |-> pcp,
         platform_children_playlists |-> pcpl,
         root_categories |-> roots]

\* Lines 1135-1174: the loop over the rows from position n on.
RECURSIVE ParseRowsFrom(_, _, _, _)
ParseRowsFrom(m, rs, n, known) ==
    IF n > Len(rs) THEN m
    ELSE ParseRowsFrom(RowEffect(m, rs[n], known), rs, n + 1, known)

\* Lines 1085-1174; a missing Parents.xml gives the empty maps.
parse_parents(exists, rs, by_lb_id) ==
    IF ~exists THEN NoEdges ELSE ParseRowsFrom(NoEdges, rs, 1, DOMAIN by_lb_id)

\* Lines 1371-1374.
RootKnownAlways(root, m) == TRUE
RootKnown(root, m) ==
    root \in m.root_categories \/ root \in DOMAIN m.category_children_categories

\* The elements of set S in the order a walk over the set yields them:
\* `order` lists every name once, as the process's str hashes arrange them.
RECURSIVE InOrder(_, _)
InOrder(S, order) ==
    IF order = <<>> THEN <<>>
    ELSE (IF Head(order) \in S THEN <<Head(order)>> ELSE <<>>) \o InOrder(S, Tail(order))

\* What a make_..._folder call gives when the interpreter's recursion limit
\* is hit below it.
RecursionError == [error |-> "RecursionError"]
IsError(f) == "error" \in DOMAIN f

\* Lines 1206-1214: no folder (the empty list) for an unknown playlist.
make_playlist_folder(lb_playlist_id, by_lb_id) ==
    IF lb_playlist_id \notin DOMAIN by_lb_id THEN <<>>
    ELSE LET pl == by_lb_id[lb_playlist_id]
         IN  <<[Id |-> pl.Id, Name |-> pl.Name, GameIds |-> SortedIds(pl.GameIds)]>>

RECURSIVE PlaylistFolders(_, _)
PlaylistFolders(ids, by_lb_id) ==
    IF ids = <<>> THEN <<>>
    ELSE make_playlist_folder(Head(ids), by_lb_id) \o PlaylistFolders(Tail(ids), by_lb_id)

\* The folder with its optional keys.
WithGameIds(folder, has, ids) == IF has THEN folder @@ [GameIds |-> ids] ELSE folder
WithChildren(folder, children) ==
    IF children # <<>> THEN folder @@ [Children |-> children] ELSE folder

AnyError(fs) == \E n \in DOMAIN fs : IsError(fs[n])

\* Line 1223: the platform has an entry in games_by_platform_norm.
HasGames(nk, games_of) == nk \in DOMAIN games_of

\* Lines 1216-1241 and 1243-1269.  `id` stands for the fresh uuid4 of the
\* folder (the position of the call in the expansion), `depth` counts the
\* nested calls and `e` holds the edge maps, the playlists, the games of the
\* platforms, the walk order of the sets and the recursion limit.
RECURSIVE make_platform_folder(_, _, _, _)
RECURSIVE PlatformFolders(_, _, _, _, _)
RECURSIVE make_category_folder(_, _, _, _)
RECURSIVE CategoryFolders(_, _, _, _, _)

make_platform_folder(platform_name, id, depth, e) ==
    IF depth > e.limit THEN RecursionError
    ELSE
    LET nk == norm_key(platform_name)
        lists == PlaylistFolders(
                     InOrder(GetSet(e.maps.platform_children_playlists, platform_name),
                             e.order),
                     e.playlists)
        subs == PlatformFolders(
                     InOrder(GetSet(e.maps.platform_children_platforms, platform_name),
                             e.order),
                     1, id \o <<2>>, depth + 1, e)
        folder == WithGameIds([Id |-> id, Name |-> platform_name],
                              HasGames(nk, e.games),
                              IF HasGames(nk, e.games) THEN SortedIds(e.games[nk]) ELSE <<>>)
    IN  IF AnyError(subs) THEN RecursionError
        ELSE WithChildren(folder, lists \o subs)

PlatformFolders(names, k, id, depth, e) ==
    IF k > Len(names) THEN <<>>
    ELSE <<make_platform_folder(names[k], id \o <<k>>, depth, e)>>
            \o PlatformFolders(names, k + 1, id, depth, e)

make_category_folder(category_name, id, depth, e) ==
    IF depth > e.limit THEN RecursionError
    ELSE
    LET cats == CategoryFolders(
                    SortedNames(GetSet(e.maps.category_children_categories, category_name)),
                    1, id \o <<1>>, depth + 1, e)
        plats == PlatformFolders(
                    SortedNames(GetSet(e.maps.category_children_platforms, category_name)),
                    1, id \o <<2>>, depth + 1, e)
        lists == PlaylistFolders(
                    InOrder(GetSet(e.maps.category_children_playlists, category_name),
                            e.order),
                    e.playlists)
    IN  IF AnyError(cats) \/ AnyError(plats) THEN RecursionError
        ELSE WithChildren([Id |-> id, Name |-> category_name], cats \o plats \o lists)

CategoryFolders(names, k, id, depth, e) ==
    IF k > Len(names) THEN <<>>
    ELSE <<make_category_folder(names[k], id \o <<k>>, depth, e)>>
            \o CategoryFolders(names, k + 1, id, depth, e)

\* Lines 1271-1272.
build_folder_tree_from_parents(root_category_name, e) ==
    make_category_folder(root_category_name, <<1>>, 1, e)

\* Line 309.
ROOT_CATEGORY_NAME == <<"A">>

CatNames == {<<"A">>, <<"B">>}
PlatNames == {<<"C", "!">>}
PlaylistIds == {<<"a">>, <<"b">>}

\* sys.getrecursionlimit(), in nested make_..._folder calls: above the depth
\* of every tree without a cycle over these names.
RecursionLimitShallow == Cardinality(CatNames)
RecursionLimit == Cardinality(CatNames) + Cardinality(PlatNames) + 1

\* The orders in which a walk over a set of str may yield these names.
RECURSIVE Orders(_)
Orders(S) ==
    IF S = {} THEN {<<>>}
    ELSE UNION {{<<x>> \o q : q \in Orders(S \ {x})} : x \in S}

\* A <Parent> row with these five fields.
Row(platform_name, playlist_id, cat_name, parent_platform, parent_cat) ==
    [platform_name |-> platform_name, playlist_id |-> playlist_id, cat_name |-> cat_name,
     parent_platform |-> parent_platform, parent_cat |-> parent_cat]

\* The Parents.xml files import_launchbox_exo is run on: none; one that is
\* not XML; the root category as a category of its own, holding the platform
\* of the first platform file, with playlist "a" under both; the root
\* category named only as the parent of a category that holds that platform;
\* the root category named only as a child.
ParentsFiles ==
    {[file |-> "missing", rows |-> <<>>],
     [file |-> "malformed", rows |-> <<>>],
     [file |-> "ok",
      rows |-> <<Row(Empty, Empty, ROOT_CATEGORY_NAME, Empty, Empty),
                 Row(FileStem(1), Empty, Empty, Empty, ROOT_CATEGORY_NAME),
                 Row(Empty, <<"a">>, Empty, FileStem(1), ROOT_CATEGORY_NAME)>>],
     [file |-> "ok",
      rows |-> <<Row(Empty, Empty, <<"B">>, Empty, ROOT_CATEGORY_NAME),
                 Row(FileStem(1), Empty, Empty, Empty, <<"B">>)>>],
     [file |-> "ok",
      rows |-> <<Row(Empty, Empty, ROOT_CATEGORY_NAME, Empty, <<"B">>)>>]}

\* Lines 1361-1400: Parents.xml is parsed, and the folder tree is built and
\* dumped only when the root category is known.
DumpFolders ==
    /\ mainPc = "parents"
    /\ \E input \in ParentsFiles, order \in Orders(PlaylistIds \cup PlatNames) :
         LET m == parse_parents(input.file = "ok", input.rows, playlists_by_lb_id)
             found == RootKnown(ROOT_CATEGORY_NAME, m)
             tree == build_folder_tree_from_parents(ROOT_CATEGORY_NAME,
                         [maps |-> m, playlists |-> playlists_by_lb_id,
                          games |-> games_by_platform_norm, order |-> order,
                          limit |-> RecursionLimit])
         IN  /\ parentsFile' = input.file
             /\ rows' = input.rows
             /\ IF input.file = "malformed"
                  THEN /\ mainPc' = "ParseError"
                       /\ error' = [type |-> "ParseError", stage |-> "folders",
                                    text |-> "syntax error: line 1, column 0", file |-> 0]
                       /\ UNCHANGED <<edges, rootFound, outputs, folderTree>>
                  ELSE IF ~found
                  THEN /\ mainPc' = "done"
                       /\ edges' = m
                       /\ rootFound' = found
                       /\ UNCHANGED <<outputs, error, folderTree>>
                  ELSE IF IsError(tree)
                  THEN /\ mainPc' = "RecursionError"
                       /\ edges' = m
                       /\ rootFound' = found
                       /\ error' = [type |-> "RecursionError", stage |-> "folders",
                                    text |-> "maximum recursion depth exceeded", file |-> 0]
                       /\ UNCHANGED <<outputs, folderTree>>
                  ELSE /\ mainPc' = "done"
                       /\ edges' = m
                       /\ rootFound' = found
                       /\ outputs' = outputs \cup {"folders"}
                       /\ folderTree' = <<tree>>
                       /\ UNCHANGED error
    /\ UNCHANGED <<dlVars, title, fzVars, candVars, ffVars, coverVars, gameVars,
                   playlistFiles, playlists, playlists_by_lb_id, rowIdx, treePc, dirExists, platform_files, fileGames, fileFault,
                   cpu_count, worker_count, taskPc, games, resultQ, platform_results,
                   platform_bar, progress_queue, game_bar, listenerPc, manager,
                   pending, playnite_games, games_by_lb_id, games_by_platform_norm>>

Next ==
    \/ ConfigError
    \/ StartStage
    \/ \E i \in Files : WorkerTake(i)
    \/ \E i \in Files : WorkerParseGame(i)
    \/ \E i \in Files : WorkerReturn(i)
    \/ \E i \in Files : WorkerRaise(i)
    \/ CollectResult
    \/ CollectException
    \/ PoolExhausted
    \/ FinallyPut
    \/ FinallyJoin
    \/ FinallyShutdown
    \/ ListenerGet
    \/ Merge
    \/ DumpGames
    \/ DumpPlaylists
    \/ DumpFolders

Spec == Init /\ [][Next]_vars

\* --------------------------------------------- claims: import_launchbox_exo

\* The records of files 1..n, file by file in sorted order, each file's
\* records in in-file order.
RECURSIVE RecordsOfFiles(_)
RecordsOfFiles(n) ==
    IF n = 0 THEN <<>>
    ELSE RecordsOfFiles(n - 1) \o [j \in 1..fileGames[n] |-> Game(n, j)]

Merged == mainPc \in {"dump_games", "dump_playlists", "parents", "done"}

\* C1: once merged, the Records list is the concatenation of the files'
\* records in the sorted order of the files, whatever the worker count and
\* whichever worker finished first.
C1_MergeInSortedOrder ==
    Merged => playnite_games = RecordsOfFiles(Len(platform_files))

\* C1 witness: two workers, the second file's result was collected first, and
\* both files gave records.
C1_Witness ==
    /\ mainPc = "done"
    /\ worker_count >= 2
    /\ platform_results[1][1] = 2
    /\ fileGames[1] >= 1 /\ fileGames[2] >= 1

AnyWorkerRaised == \E i \in Files : taskPc[i] = "failed"

\* C2: once a worker has raised, nothing is ever merged into the Records list
\* or the lookup maps, no output is written, and the run can only end with
\* the RuntimeError.
C2_WorkerFailureAborts ==
    AnyWorkerRaised =>
        /\ playnite_games = <<>>
        /\ games_by_lb_id = <<>>
        /\ games_by_platform_norm = <<>>
        /\ outputs = {}
        /\ mainPc \in {"pool", "finally_put", "finally_join", "finally_shutdown",
                       "RuntimeError"}
        /\ (~ENABLED Next => mainPc = "RuntimeError" /\ error.type = "RuntimeError")

\* C2 witness: the run has aborted after the result of a worker that
\* completed was already collected.
C2_Witness ==
    /\ mainPc = "RuntimeError"
    /\ Len(platform_results) >= 1
    /\ platform_results[1][2].games # <<>>

\* f[1] + ... + f[n]
RECURSIVE SumTo(_, _)
SumTo(f, n) == IF n = 0 THEN 0 ELSE f[n] + SumTo(f, n - 1)

AllWorkersSucceed == \A i \in Files : fileFault[i] = "ok"

\* C3: in a run where every worker succeeds, when the listener has stopped
\* the progress counter equals the number of records parsed over all files
\* and no increment is left behind the sentinel.
C3_ProgressComplete ==
    (listenerPc = "done" /\ AllWorkersSucceed) =>
        /\ game_bar = SumTo(fileGames, Len(platform_files))
        /\ progress_queue = <<>>

\* C3 witness: the listener has stopped after counting the records of two
\* files parsed by two workers.
C3_Witness ==
    /\ listenerPc = "done"
    /\ AllWorkersSucceed
    /\ worker_count >= 2
    /\ fileGames[1] >= 1 /\ fileGames[2] >= 1
    /\ game_bar >= 2

StageLeft == mainPc \in {"RuntimeError", "KeyError", "merge", "dump_games",
                         "dump_playlists", "parents", "done"}

\* C4: the stage is left, on success or on a worker failure, only with the
\* listener thread ended and the manager shut down; and while the main
\* process waits in join, the sentinel is on the queue or already consumed,
\* so the listener is never blocked for good.
C4_CleanupOnEveryExit ==
    /\ StageLeft => listenerPc = "done" /\ manager = "down"
    /\ mainPc \in {"finally_join", "finally_shutdown"} =>
           \/ listenerPc = "done"
           \/ /\ progress_queue # <<>>
              /\ progress_queue[Len(progress_queue)] = None
    /\ mainPc \in {"pool", "finally_put", "finally_join", "finally_shutdown"} =>
           ENABLED Next

\* C4 witness: a run aborted by a worker failure, after progress had been
\* reported, has left the stage with the listener ended and the manager down.
C4_Witness ==
    /\ mainPc = "RuntimeError"
    /\ listenerPc = "done"
    /\ manager = "down"
    /\ game_bar >= 1

\* C5 as claimed: the error of an aborted run names the file of a worker
\* that failed.
C5_ErrorNamesFile ==
    mainPc = "RuntimeError" => \E i \in Files : taskPc[i] = "failed" /\ error.file = i

\* C5 amended: the error of an aborted run names the stage and carries the
\* text of a failed worker's exception; it names that worker's file exactly
\* when the exception text does (the no-root ValueError).
C5_ErrorCarriesWorkerText ==
    mainPc = "RuntimeError" =>
        \E i \in Files :
            /\ taskPc[i] = "failed"
            /\ error.type = "RuntimeError"
            /\ error.stage = "Failed to process platform files"
            /\ error.text = ExcOf(i).text
            /\ error.file = (IF fileFault[i] = "ValueError" THEN i ELSE 0)

\* C5 witness: a run aborted by an XML parse error, reported without a file.
C5_Witness ==
    /\ mainPc = "RuntimeError"
    /\ error.text = "syntax error: line 1, column 0"
    /\ error.file = 0

\* -------------------------------------------------- damerau_levenshtein

\* import_launchbox_exo is not running.
OrchIdleButGames ==
    /\ dirExists = FALSE
    /\ platform_files = <<>>
    /\ fileGames = <<>>
    /\ fileFault = <<>>
    /\ cpu_count = 1
    /\ worker_count = 0
    /\ mainPc = "idle"
    /\ taskPc = <<>>
    /\ games = <<>>
    /\ resultQ = <<>>
    /\ platform_results = <<>>
    /\ platform_bar = 0
    /\ progress_queue = <<>>
    /\ game_bar = 0
    /\ listenerPc = "unstarted"
    /\ manager = "none"
    /\ pending = NoError
    /\ error = NoError
    /\ playnite_games = <<>>
    /\ games_by_lb_id = <<>>
    /\ rootFound = FALSE
    /\ outputs = {}

OrchIdle == OrchIdleButGames /\ games_by_platform_norm = <<>>

\* Strings are sequences of characters.
DlAlphabet == {"a", "b", "c"}

RECURSIVE StringsUpTo(_, _)
StringsUpTo(alphabet, n) ==
    IF n = 0 THEN {<<>>}
    ELSE LET shorter == StringsUpTo(alphabet, n - 1) IN
         shorter \cup {Append(s, ch) : s \in {t \in shorter : Len(t) = n - 1},
                                       ch \in alphabet}

Abs(x) == IF x < 0 THEN 0 - x ELSE x
Min3(x, y, z) == Min(x, Min(y, z))

\* Line 582: the cheap rejection on the difference of the lengths.
LengthRejectAtBound(len_a, len_b, k) == Abs(len_a - len_b) >= k
LengthReject(len_a, len_b, k) == Abs(len_a - len_b) > k

\* Lines 603-611: the cell d[i][j] for i, j >= 1. A row d[i] is the sequence
\* of its cells d[i][0..len_b], d[i][j] at index j + 1; prev2 is d[i-2], prev
\* is d[i-1] and cur holds d[i][0..j-1].
Cell(s, t, i, j, prev2, prev, cur) ==
    LET cost == IF s[i] = t[j] THEN 0 ELSE 1
        plain == Min3(prev[j + 1] + 1, cur[j] + 1, prev[j] + cost)
    IN  IF i > 1 /\ j > 1 /\ s[i] = t[j - 1] /\ s[i - 1] = t[j]
          THEN Min(plain, prev2[j - 1] + cost)
          ELSE plain

\* Lines 596, 602-611: row d[i], grown from d[i][0] = i.
RECURSIVE RowFrom(_, _, _, _, _, _)
RowFrom(s, t, i, prev2, prev, cur) ==
    IF Len(cur) = Len(t) + 1 THEN cur
    ELSE RowFrom(s, t, i, prev2, prev,
                 Append(cur, Cell(s, t, i, Len(cur), prev2, prev, cur)))

\* Lines 601, 613: best_in_row after the inner loop.
RECURSIVE BestInRow(_, _, _)
BestInRow(row, j, best) ==
    IF j > Len(row) - 1 THEN best
    ELSE BestInRow(row, j + 1, Min(best, row[j + 1]))

\* Lines 600-618: the outer loop from row i on, and the final return.
RECURSIVE RowsFrom(_, _, _, _, _, _)
RowsFrom(s, t, k, i, prev2, prev) ==
    LET cur == RowFrom(s, t, i, prev2, prev, <<i>>) IN
    IF BestInRow(cur, 1, k + 1) > k THEN k + 1
    ELSE IF i = Len(s) THEN cur[Len(t) + 1]
    ELSE RowsFrom(s, t, k, i + 1, prev, cur)

\* Lines 571-618.
damerau_levenshtein(s, t, k) ==
    IF LengthReject(Len(s), Len(t), k) THEN k + 1
    ELSE IF Len(s) = 0 THEN Len(t)
    ELSE IF Len(t) = 0 THEN Len(s)
    ELSE LET row0 == [j \in 1..(Len(t) + 1) |-> j - 1] IN
         RowsFrom(s, t, k, 1, row0, row0)

DlInit ==
    /\ a \in StringsUpTo(DlAlphabet, MaxLen)
    /\ b \in StringsUpTo(DlAlphabet, MaxLen)
    /\ max_distance \in 0..MaxK
    /\ dlPc = "called"
    /\ dlRet = 0
    /\ dlRetSwapped = 0

InitDL == OrchIdle /\ DlInit /\ title = <<>> /\ FuzzyIdle /\ CandIdle /\ ExtIdle

\* damerau_levenshtein(a, b, max_distance) returns.
DlReturn ==
    /\ dlPc = "called"
    /\ dlRet' = damerau_levenshtein(a, b, max_distance)
    /\ dlPc' = "returned"
    /\ UNCHANGED <<orchVars, extVars, title, fzVars, candVars, a, b, max_distance, dlRetSwapped>>

\* damerau_levenshtein(b, a, max_distance) returns.
DlReturnSwapped ==
    /\ dlPc = "returned"
    /\ dlRetSwapped' = damerau_levenshtein(b, a, max_distance)
    /\ dlPc' = "both"
    /\ UNCHANGED <<orchVars, extVars, title, fzVars, candVars, a, b, max_distance, dlRet>>

NextDL == DlReturn \/ DlReturnSwapped

SpecDL == InitDL /\ [][NextDL]_vars

\* --------------------------------------------- claims: damerau_levenshtein

\* The restricted Damerau-Levenshtein (optimal string alignment) distance of
\* the prefixes s[1..i] and t[1..j]: the fewest insertions, deletions,
\* substitutions and transpositions of two adjacent characters, no character
\* being edited twice.
RECURSIVE OsaDistance(_, _, _, _)
OsaDistance(s, t, i, j) ==
    IF i = 0 THEN j
    ELSE IF j = 0 THEN i
    ELSE LET del == OsaDistance(s, t, i - 1, j) + 1
             ins == OsaDistance(s, t, i, j - 1) + 1
             sub == OsaDistance(s, t, i - 1, j - 1) + (IF s[i] = t[j] THEN 0 ELSE 1)
         IN  IF i > 1 /\ j > 1 /\ s[i] = t[j - 1] /\ s[i - 1] = t[j] /\ s[i] # t[j]
               THEN Min(Min3(del, ins, sub), OsaDistance(s, t, i - 2, j - 2) + 1)
               ELSE Min3(del, ins, sub)

SetMin(S) == CHOOSE x \in S : \A y \in S : x <= y

\* The unrestricted Damerau-Levenshtein distance of the prefixes s[1..i] and
\* t[1..j]: the fewest insertions, deletions, substitutions and
\* transpositions of adjacent characters that turn one into the other. A
\* transposition may bring together s[k] and s[i] after the characters
\* between them were deleted, and characters may be inserted between them
\* afterwards.
RECURSIVE DlDistance(_, _, _, _)
DlDistance(s, t, i, j) ==
    IF i = 0 THEN j
    ELSE IF j = 0 THEN i
    ELSE LET del == DlDistance(s, t, i - 1, j) + 1
             ins == DlDistance(s, t, i, j - 1) + 1
             sub == DlDistance(s, t, i - 1, j - 1) + (IF s[i] = t[j] THEN 0 ELSE 1)
             swaps == {DlDistance(s, t, k - 1, l - 1) + (i - k - 1) + 1 + (j - l - 1) :
                         <<k, l>> \in {p \in (1..(i - 1)) \X (1..(j - 1)) :
                                          s[p[1]] = t[j] /\ s[i] = t[p[2]]}}
         IN  SetMin({del, ins, sub} \cup swaps)

\* C6 as claimed: the result is within the bound exactly when the
\* Damerau-Levenshtein distance (insert, delete, substitute, adjacent
\* transposition, each cost 1) is, and then it is that distance.
C6_ExactForDamerauLevenshtein ==
    dlPc # "called" =>
        LET dist == DlDistance(a, b, Len(a), Len(b)) IN
        /\ (dlRet <= max_distance) <=> (dist <= max_distance)
        /\ dlRet <= max_distance => dlRet = dist

\* C6 amended: the result is within the bound exactly when the restricted
\* (optimal string alignment) distance is, and then it is that distance; in
\* particular a pair whose distance is exactly the bound is not rejected.
C6_ExactForRestrictedDistance ==
    dlPc # "called" =>
        LET dist == OsaDistance(a, b, Len(a), Len(b)) IN
        /\ (dlRet <= max_distance) <=> (dist <= max_distance)
        /\ dlRet <= max_distance => dlRet = dist

\* C6 witness: a pair whose lengths differ by exactly the bound and whose
\* distance is the bound was accepted with that distance.
C6_Witness ==
    /\ dlPc = "returned"
    /\ max_distance = 2
    /\ Len(b) - Len(a) = 2
    /\ dlRet = 2

\* C7: damerau_levenshtein(a, b, k) = damerau_levenshtein(b, a, k).
C7_Symmetric ==
    dlPc = "both" => dlRet = dlRetSwapped

\* C8: the result never exceeds max_distance + 1, and it is max_distance + 1
\* whenever it is not within the bound.
C8_CappedAtBoundPlusOne ==
    dlPc # "called" =>
        /\ dlRet <= max_distance + 1
        /\ dlRet > max_distance => dlRet = max_distance + 1

\* ----------------------------------------------------- find_fuzzy_image

\* The extensions handed to find_fuzzy_image, and those files can have.
IMAGE_EXTENSIONS == <<"png", "jpg">>
FileExtensions == {"png", "jpg", "txt"}

FzTitles == {<<"a", "b", "c">>, <<"A", "_", "b">>}
FzStems == {<<"a", "b", "c">>, <<"A", "b", "c", "s">>, <<"a", "c", "b">>,
            <<"a", "-", "b">>}

RECURSIVE SeqsUpTo(_, _)
SeqsUpTo(S, n) ==
    IF n = 0 THEN {<<>>}
    ELSE LET shorter == SeqsUpTo(S, n - 1) IN
         shorter \cup {Append(q, x) : q \in {t \in shorter : Len(t) = n - 1}, x \in S}

\* The positions of the listing's files with extension ext, in glob order.
RECURSIVE GlobExt(_, _, _)
GlobExt(files, ext, n) ==
    IF n > Len(files) THEN <<>>
    ELSE (IF files[n].ext = ext THEN <<n>> ELSE <<>>) \o GlobExt(files, ext, n + 1)

\* Lines 642-643: the files the two loops visit, in order.
RECURSIVE EnumerationFrom(_, _, _)
EnumerationFrom(files, extensions, e) ==
    IF e > Len(extensions) THEN <<>>
    ELSE GlobExt(files, extensions[e], 1) \o EnumerationFrom(files, extensions, e + 1)

Enumeration == EnumerationFrom(listing, IMAGE_EXTENSIONS, 1)

\* Line 638.
Target == normalized_media_key(title)

FuzzyInit ==
    /\ title \in FzTitles
    /\ folderExists \in BOOLEAN
    /\ listing \in SeqsUpTo([stem : FzStems, ext : FileExtensions], MaxDirFiles)
    /\ (~folderExists => listing = <<>>)
    /\ fzMaxDistance \in 0..MaxK
    /\ fzPc = "called"
    /\ fzIdx = 0
    /\ best_path = NoPath
    /\ best_distance = 0
    /\ fzRet = NoPath

InitFuzzy == OrchIdle /\ DlIdle /\ FuzzyInit /\ CandIdle /\ ExtIdle

\* Lines 635-636.
FuzzyNoFolder ==
    /\ fzPc = "called"
    /\ ~folderExists
    /\ fzRet' = NoPath
    /\ fzPc' = "returned"
    /\ UNCHANGED <<orchVars, extVars, dlVars, candVars, title, folderExists, listing, fzMaxDistance,
                   fzIdx, best_path, best_distance>>

\* Lines 638-640.
FuzzyStart ==
    /\ fzPc = "called"
    /\ folderExists
    /\ best_path' = NoPath
    /\ best_distance' = fzMaxDistance + 1
    /\ fzIdx' = 1
    /\ fzPc' = "loop"
    /\ UNCHANGED <<orchVars, extVars, dlVars, candVars, title, folderExists, listing, fzMaxDistance,
                   fzRet>>

\* Line 646: the file is no better than the best so far.
SkipFileUnlessEqual(distance, best) == distance > best
SkipFile(distance, best) == distance >= best

\* Lines 644-651: the loop body for the next file of the enumeration.
FuzzyVisit ==
    /\ fzPc = "loop"
    /\ fzIdx <= Len(Enumeration)
    /\ LET n == Enumeration[fzIdx]
           candidate == normalized_media_key(listing[n].stem)
           distance == damerau_levenshtein(Target, candidate, fzMaxDistance)
       IN  IF SkipFile(distance, best_distance)
             THEN /\ fzIdx' = fzIdx + 1
                  /\ UNCHANGED <<best_path, best_distance, fzPc, fzRet>>
             ELSE /\ best_distance' = distance
                  /\ best_path' = Path(n)
                  /\ IF distance = 0
                       THEN fzRet' = Path(n) /\ fzPc' = "returned" /\ UNCHANGED fzIdx
                       ELSE fzIdx' = fzIdx + 1 /\ UNCHANGED <<fzPc, fzRet>>
    /\ UNCHANGED <<orchVars, extVars, dlVars, candVars, title, folderExists, listing, fzMaxDistance>>

\* Lines 653-655.
FuzzyFinish ==
    /\ fzPc = "loop"
    /\ fzIdx > Len(Enumeration)
    /\ fzRet' = IF best_distance <= fzMaxDistance THEN best_path ELSE NoPath
    /\ fzPc' = "returned"
    /\ UNCHANGED <<orchVars, extVars, dlVars, candVars, title, folderExists, listing, fzMaxDistance,
                   fzIdx, best_path, best_distance>>

NextFuzzy == FuzzyNoFolder \/ FuzzyStart \/ FuzzyVisit \/ FuzzyFinish

SpecFuzzy == InitFuzzy /\ [][NextFuzzy]_vars

\* ------------------------------------------------ claims: find_fuzzy_image

\* The distance of the normalized stem of the file at position n of the
\* listing to the normalized target.
StemDistance(n) ==
    LET key == normalized_media_key(listing[n].stem) IN
    OsaDistance(Target, key, Len(Target), Len(key))

\* The enumerated files within the bound, and the place in the enumeration of
\* the first of those at the least distance.
WithinBound == {e \in 1..Len(Enumeration) : StemDistance(Enumeration[e]) <= fzMaxDistance}
FirstBest ==
    CHOOSE e \in WithinBound :
        \A f \in WithinBound :
            \/ StemDistance(Enumeration[e]) < StemDistance(Enumeration[f])
            \/ StemDistance(Enumeration[e]) = StemDistance(Enumeration[f]) /\ e <= f

\* C9: over an existing directory find_fuzzy_image returns the first
\* enumerated file among those at the least distance, and none when no
\* enumerated file is within max_distance.
C9_FirstFileAtMinimum ==
    (fzPc = "returned" /\ folderExists) =>
        fzRet = IF WithinBound = {} THEN NoPath ELSE Path(Enumeration[FirstBest])

\* C9 witness: the file returned is at distance 0 and was enumerated second,
\* after a file at distance 1.
C9_Witness ==
    /\ fzPc = "returned"
    /\ Len(Enumeration) >= 2
    /\ StemDistance(Enumeration[1]) = 1
    /\ StemDistance(Enumeration[2]) = 0
    /\ fzRet = Path(Enumeration[2])

\* ------------------------------------------------ media_name_candidates

\* Lines 362-363.
replacement_chars == <<":", "!", "?", "*", "dquote", "<", ">", "|">>
replacements == {<<"_">>, <<" ">>, <<>>}

Contains(s, ch) == \E n \in DOMAIN s : s[n] = ch

\* Lines 364-371: the loop over replacement_chars from position c on.
RECURSIVE RawVariantsFrom(_, _)
RawVariantsFrom(variants, c) ==
    IF c > Len(replacement_chars) THEN variants
    ELSE LET ch == replacement_chars[c]
             updates == {Replace(variant, ch, repl) :
                            variant \in {v \in variants : Contains(v, ch)},
                            repl \in replacements}
         IN  RawVariantsFrom(variants \cup updates, c + 1)

\* Lines 360-372.
raw_title_variants(t) == RawVariantsFrom({t}, 1)

\* Lines 375-387.
base_variants(base) ==
    IF base = <<>> THEN {}
    ELSE LET marked == {Replace(Replace(base, "'", r), RightQuote, r) :
                           r \in {<<"_">>, <<>>, <<" ">>}}
             variants == {base} \cup marked
                            \cup {Replace(base, " ", <<"_">>), Replace(base, " ", <<>>)}
         IN  {value \in variants : value # <<>>}

InSeq(q, x) == \E n \in DOMAIN q : q[n] = x

\* Lines 352-357.
add_candidate(cands, value) ==
    IF value = <<>> THEN cands
    ELSE LET cleaned == Strip(value) IN
         IF cleaned # <<>> /\ ~InSeq(cands, cleaned) THEN Append(cands, cleaned)
         ELSE cands

CandAlphabet == {"a", " ", "'", ":"}
\* Every title up to the bound, and one longer title with a space inside.
CandTitles == StringsUpTo(CandAlphabet, MaxTitleLen) \cup {<<"a", " ", "a">>}
\* The titles that a second process expands as well.
TwiceTitles == StringsUpTo(CandAlphabet, MaxTwiceLen) \cup {<<"a", " ", "a">>}

CandInit ==
    /\ title \in CandTitles
    /\ candPc = "called"
    /\ rawTodo = {}
    /\ variantTodo = {}
    /\ candidates = <<>>
    /\ candCall = 1
    /\ candidatesBefore = <<>>

InitCand == OrchIdle /\ DlIdle /\ FuzzyIdle /\ CandInit /\ ExtIdle

\* Lines 399-400: the list is created and the set of raw variants built.
CandStart ==
    /\ candPc = "called"
    /\ candidates' = <<>>
    /\ rawTodo' = raw_title_variants(title)
    /\ variantTodo' = {}
    /\ candPc' = "loop"
    /\ UNCHANGED <<orchVars, extVars, dlVars, fzVars, title, candCall, candidatesBefore>>

\* Lines 400-402: the outer loop takes the next raw variant, in the order
\* the set happens to yield.
CandNextRaw ==
    /\ candPc = "loop"
    /\ variantTodo = {}
    /\ \E raw \in rawTodo :
         /\ rawTodo' = rawTodo \ {raw}
         /\ variantTodo' = base_variants(normalize_title(raw))
    /\ UNCHANGED <<orchVars, extVars, dlVars, fzVars, title, candPc, candidates, candCall,
                   candidatesBefore>>

\* Lines 402-403: the inner loop takes the next variant, in the order the
\* set happens to yield.
CandAdd ==
    /\ candPc = "loop"
    /\ \E variant \in variantTodo :
         /\ variantTodo' = variantTodo \ {variant}
         /\ candidates' = add_candidate(candidates, variant)
    /\ UNCHANGED <<orchVars, extVars, dlVars, fzVars, title, candPc, rawTodo, candCall,
                   candidatesBefore>>

\* Line 404.
CandReturn ==
    /\ candPc = "loop"
    /\ rawTodo = {}
    /\ variantTodo = {}
    /\ candPc' = "returned"
    /\ UNCHANGED <<orchVars, extVars, dlVars, fzVars, title, rawTodo, variantTodo, candidates,
                   candCall, candidatesBefore>>

\* The same title is expanded once more by another interpreter process (a
\* worker of the "spawn" pool of line 1304, or a later run): str hashes are
\* seeded per process, so the sets of lines 400 and 402 are walked in an
\* order of their own.
CandCallAgain ==
    /\ candPc = "returned"
    /\ candCall = 1
    /\ title \in TwiceTitles
    /\ candCall' = 2
    /\ candidatesBefore' = candidates
    /\ candPc' = "called"
    /\ UNCHANGED <<orchVars, extVars, dlVars, fzVars, title, rawTodo, variantTodo, candidates>>

NextCand == CandStart \/ CandNextRaw \/ CandAdd \/ CandReturn \/ CandCallAgain

SpecCand == InitCand /\ [][NextCand]_vars

\* ------------------------------------------- claims: media_name_candidates

NoSpecialPunctuation(t) ==
    \A n \in DOMAIN t : \A c \in DOMAIN replacement_chars : t[n] # replacement_chars[c]

\* C10 as claimed: a title with none of the special punctuation characters
\* yields exactly one candidate, the trimmed title.
C10_OneCandidate ==
    (candPc = "returned" /\ NoSpecialPunctuation(title)) =>
        candidates = <<Strip(title)>>

\* A title whose trimmed form is not empty and holds neither a space nor an
\* apostrophe.
PlainTitle(t) ==
    /\ Strip(t) # <<>>
    /\ \A n \in DOMAIN Strip(t) : Strip(t)[n] \notin {" ", "'", RightQuote}

\* C10 amended: a title with none of the special punctuation characters, no
\* apostrophe and, once trimmed, no space and at least one character yields
\* exactly one candidate, the trimmed title.
C10_OneCandidateForPlainTitle ==
    (candPc = "returned" /\ NoSpecialPunctuation(title) /\ PlainTitle(title)) =>
        candidates = <<Strip(title)>>

\* C10 witness: a plain title with a leading space has returned its trimmed
\* form as the only candidate.
C10_Witness ==
    /\ candPc = "returned"
    /\ NoSpecialPunctuation(title)
    /\ PlainTitle(title)
    /\ title # <<>> /\ Head(title) = " "
    /\ candidates = <<Strip(title)>>

\* The list holds no value twice.
NoDuplicate(q) == \A m, n \in DOMAIN q : q[m] = q[n] => m = n

\* C11: the ordered list is determined by the title (a second call for the
\* same title returns the same sequence as the first), holds no duplicate and
\* no empty string.
C11_OrderDeterminedByTitle ==
    candPc = "returned" =>
        /\ NoDuplicate(candidates)
        /\ ~InSeq(candidates, <<>>)
        /\ candCall = 2 => candidates = candidatesBefore

\* ------------------------------------------- collect_images.first_from

\* Line 622: the default of max_distance, which find_first_image relies on.
DefaultMaxDistance == 2

\* The titles looked up: each has one candidate, itself.
FirstTitles == {<<"a", "b">>, <<"a", "-", "b">>}
\* File stems: "ab" and "a-b" are a direct hit for one title and, through
\* normalized_media_key, one edit away from the other; "xyz" matches neither.
FirstStems == {<<"a", "b">>, <<"a", "-", "b">>, <<"x", "y", "z">>}

\* A folder that does not exist.
NoFolder == [exists |-> FALSE, files |-> <<>>]

FolderShapes ==
    {NoFolder} \cup
    {[exists |-> TRUE, files |-> f] :
        f \in SeqsUpTo([stem : FirstStems, ext : {"png", "jpg"}], MaxFolderFiles)}

FirstInit ==
    /\ title \in FirstTitles
    /\ folders \in {q \in SeqsUpTo(FolderShapes, MaxFolders) : q # <<>>}
    /\ ffPc = "called"
    /\ ffIdx = 0
    /\ ffRet = NoPath
    /\ candPc = "called"
    /\ rawTodo = {}
    /\ variantTodo = {}
    /\ candidates = <<>>
    /\ candCall = 1
    /\ candidatesBefore = <<>>

InitFirst ==
    OrchIdle /\ DlIdle /\ FuzzyIdle /\ FirstInit /\ CoverIdle /\ TreeIdle /\ GameIdle

IsPrefix(p, s) == Len(p) <= Len(s) /\ SubSeq(s, 1, Len(p)) = p

\* Lines 735-736: the positions folder.glob("**/{candidate}*.{ext}") yields,
\* in glob order.
RECURSIVE GlobCandidate(_, _, _, _)
GlobCandidate(files, candidate, ext, n) ==
    IF n > Len(files) THEN <<>>
    ELSE (IF files[n].ext = ext /\ IsPrefix(candidate, files[n].stem) THEN <<n>> ELSE <<>>)
            \o GlobCandidate(files, candidate, ext, n + 1)

\* Lines 733-737: the first file of the loops over extensions and
\* candidates, 0 when no pattern matches.
RECURSIVE DirectFrom(_, _, _, _)
DirectFrom(files, cands, e, c) ==
    IF e > Len(IMAGE_EXTENSIONS) THEN 0
    ELSE IF c > Len(cands) THEN DirectFrom(files, cands, e + 1, 1)
    ELSE LET hits == GlobCandidate(files, cands[c], IMAGE_EXTENSIONS[e], 1) IN
         IF hits # <<>> THEN hits[1] ELSE DirectFrom(files, cands, e, c + 1)

DirectHit(files, cands) == DirectFrom(files, cands, 1, 1)

\* Lines 767-771: first_from starts on its first folder.  The candidate list
\* find_first_image builds at line 732 is the same at every call within the
\* process, so it is built once.
FirstFromStart ==
    /\ ffPc = "called"
    /\ candPc = "returned"
    /\ ffIdx' = 1
    /\ ffPc' = "folder"
    /\ UNCHANGED <<orchVars, exceptFirst, dlVars, fzVars, candVars, title, folders, ffRet>>

\* Lines 772-774 and 728-738: find_first_image on the next folder.  A missing
\* folder gives None, a direct hit is returned at once, and otherwise
\* find_fuzzy_image is called on this folder.
FindFirstImage ==
    /\ ffPc = "folder"
    /\ ffIdx <= Len(folders)
    /\ LET folder == folders[ffIdx]
           hit == DirectHit(folder.files, candidates)
       IN  IF ~folder.exists
             THEN /\ ffIdx' = ffIdx + 1
                  /\ UNCHANGED <<ffPc, ffRet, fzVars>>
           ELSE IF hit # 0
             THEN /\ ffRet' = <<ffIdx, hit>>
                  /\ ffPc' = "returned"
                  /\ UNCHANGED <<ffIdx, fzVars>>
           ELSE /\ folderExists' = TRUE
                /\ listing' = folder.files
                /\ fzMaxDistance' = DefaultMaxDistance
                /\ fzPc' = "called"
                /\ ffPc' = "fuzzy"
                /\ UNCHANGED <<ffIdx, ffRet, fzIdx, best_path, best_distance, fzRet>>
    /\ UNCHANGED <<orchVars, exceptFirst, dlVars, candVars, title, folders>>

\* Lines 738 and 772-774: find_fuzzy_image has returned; a path ends
\* first_from, None moves it to the next folder.
FuzzyReturned ==
    /\ ffPc = "fuzzy"
    /\ fzPc = "returned"
    /\ fzPc' = "idle"
    /\ IF fzRet # NoPath
         THEN /\ ffRet' = <<ffIdx>> \o fzRet
              /\ ffPc' = "returned"
              /\ UNCHANGED ffIdx
         ELSE /\ ffIdx' = ffIdx + 1
              /\ ffPc' = "folder"
              /\ UNCHANGED ffRet
    /\ UNCHANGED <<orchVars, exceptFirst, dlVars, candVars, title, folders, folderExists, listing,
                   fzMaxDistance, fzIdx, best_path, best_distance, fzRet>>

\* Line 775: no folder gave a path.
FirstFromNone ==
    /\ ffPc = "folder"
    /\ ffIdx > Len(folders)
    /\ ffRet' = NoPath
    /\ ffPc' = "returned"
    /\ UNCHANGED <<orchVars, exceptFirst, dlVars, fzVars, candVars, title, folders, ffIdx>>

NextFirst ==
    \/ CandStart \/ CandNextRaw \/ CandAdd \/ CandReturn
    \/ FirstFromStart \/ FindFirstImage \/ FuzzyReturned \/ FirstFromNone
    \/ FuzzyStart \/ FuzzyVisit \/ FuzzyFinish

SpecFirst == InitFirst /\ [][NextFirst]_vars

\* ------------------------------------------------------ claims: first_from

\* Folder i exists and one of its files matches a candidate pattern.
HasDirectHit(i) == folders[i].exists /\ DirectHit(folders[i].files, candidates) # 0

\* The path returned is a file that a candidate pattern matches.
ReturnedDirect ==
    /\ ffRet # NoPath
    /\ \E c \in DOMAIN candidates :
          IsPrefix(candidates[c], folders[ffRet[1]].files[ffRet[2]].stem)

\* C12: when some folder of the search set holds a direct hit, first_from
\* returns a direct hit, never a fuzzy match of a folder visited earlier.
C12_DirectBeforeFuzzy ==
    (ffPc = "returned" /\ \E i \in DOMAIN folders : HasDirectHit(i)) => ReturnedDirect

\* --------------------------------------------------- normalize_cover_image

\* Lines 435-436: runs of "-" collapse to one.
RECURSIVE CollapseDashes(_)
CollapseDashes(s) ==
    IF Len(s) < 2 THEN s
    ELSE IF s[1] = "-" /\ s[2] = "-" THEN CollapseDashes(Tail(s))
    ELSE <<Head(s)>> \o CollapseDashes(Tail(s))

\* str.strip("-")
RECURSIVE StripDashes(_)
StripDashes(s) ==
    IF s # <<>> /\ Head(s) = "-" THEN StripDashes(Tail(s))
    ELSE IF s # <<>> /\ s[Len(s)] = "-" THEN StripDashes(SubSeq(s, 1, Len(s) - 1))
    ELSE s

Icon == <<"i", "c", "o", "n">>

\* Lines 421-438.
safe_filename(t, suffix) ==
    LET base0 == normalize_title(t)
        base == IF base0 = <<>> THEN Icon ELSE base0
        lowered == Lower(base)
        safe0 == [n \in DOMAIN lowered |-> IF IsAlnum(lowered[n]) THEN lowered[n] ELSE "-"]
        safe1 == StripDashes(CollapseDashes(safe0))
        safe == IF safe1 = <<>> THEN Icon ELSE safe1
    IN  safe \o <<".", suffix>>

\* Stems of the cover files found for the games; covers of different folders
\* may have the same stem.
CoverStems == {<<"A", "b", "!">>, <<"c", "d">>}

\* Line 521-522: the file of COVER_DIR written for caller w's source.
DestName(w) == safe_filename(sources[w].stem, "png")

DestNames == {safe_filename(stem, "png") : stem \in CoverStems}

\* A file that does not exist, and the normalized image of source w: the
\* sources are different images.
NoFile == [exists |-> FALSE, mtime |-> 0, content |-> <<>>]
Normalized(w) == <<w>>

\* When a source was last modified: before the run, at its last moment, or
\* at a time the clock does not reach during the run.
SourceTimes == {0, MaxClock, MaxClock + 1}

CoverInit ==
    /\ now = 1
    /\ \E n \in 1..MaxCallers :
          /\ sources \in [1..n -> [stem : CoverStems, mtime : SourceTimes,
                                   readable : BOOLEAN]]
          /\ coverPc = [w \in 1..n |-> "idle"]
          /\ coverLog = [w \in 1..n |-> <<>>]
    /\ dest = [f \in DestNames |-> NoFile]

InitCover ==
    /\ OrchIdle /\ DlIdle /\ title = <<>> /\ FuzzyIdle /\ CandIdle /\ FirstIdle /\ TreeIdle
    /\ GameIdle
    /\ CoverInit

\* Time passes.
Tick ==
    /\ now < MaxClock
    /\ now' = now + 1
    /\ UNCHANGED <<orchVars, exceptCover, dlVars, fzVars, candVars, title, sources, dest,
                   coverPc, coverLog>>

\* Line 525: the output is served from COVER_DIR.
CacheHitStrict(d, src) == d.exists /\ d.mtime > src.mtime
CacheHit(d, src) == d.exists /\ d.mtime >= src.mtime

\* The calls caller w makes: the first caller processes its cover twice.
CallsOf(w) == IF w = 1 THEN 2 ELSE 1

\* The record of a call of caller w that returns path, with what is at that
\* path and whether the source's modification time is still to come.
Returned(w, path, wrote, files) ==
    [ret |-> path, wrote |-> wrote,
     got |-> IF path = NoPath THEN <<>> ELSE files[path].content,
     future |-> sources[w].mtime > now]

\* Lines 513-526: caller w calls normalize_cover_image for its source, which
\* exists; an output at least as new as the source is returned as it is.
CoverCall(w) ==
    /\ coverPc[w] = "idle"
    /\ Len(coverLog[w]) < CallsOf(w)
    /\ IF CacheHit(dest[DestName(w)], sources[w])
         THEN /\ coverLog' = [coverLog EXCEPT
                                ![w] = Append(@, Returned(w, DestName(w), FALSE, dest))]
              /\ UNCHANGED coverPc
         ELSE /\ coverPc' = [coverPc EXCEPT ![w] = "open"]
              /\ UNCHANGED coverLog
    /\ UNCHANGED <<orchVars, exceptCover, dlVars, fzVars, candVars, title, now, sources, dest>>

\* Lines 528-565: the source is read, resized, and saved over the output.
CoverSave(w) ==
    /\ coverPc[w] = "open"
    /\ sources[w].readable
    /\ dest' = [dest EXCEPT ![DestName(w)] =
                   [exists |-> TRUE, mtime |-> now, content |-> Normalized(w)]]
    /\ coverLog' = [coverLog EXCEPT ![w] = Append(@, Returned(w, DestName(w), TRUE, dest'))]
    /\ coverPc' = [coverPc EXCEPT ![w] = "idle"]
    /\ UNCHANGED <<orchVars, exceptCover, dlVars, fzVars, candVars, title, now, sources>>

\* Lines 528 and 566-568: Image.open raises OSError, UnidentifiedImageError
\* or ValueError on the source; None is returned.
CoverFail(w) ==
    /\ coverPc[w] = "open"
    /\ ~sources[w].readable
    /\ coverLog' = [coverLog EXCEPT ![w] = Append(@, Returned(w, NoPath, FALSE, dest))]
    /\ coverPc' = [coverPc EXCEPT ![w] = "idle"]
    /\ UNCHANGED <<orchVars, exceptCover, dlVars, fzVars, candVars, title, now, sources, dest>>

NextCover ==
    \/ Tick
    \/ \E w \in DOMAIN sources : CoverCall(w)
    \/ \E w \in DOMAIN sources : CoverSave(w)
    \/ \E w \in DOMAIN sources : CoverFail(w)

SpecCover == InitCover /\ [][NextCover]_vars

\* ------------------------------------------- claims: normalize_cover_image

\* Caller w has called twice and both calls have returned.
CalledTwice(w) == Len(coverLog[w]) = 2

\* C13 as claimed: the second of two calls on the same source does not
\* write the destination and returns what the first returned.
C13_SecondCallIsNoOp ==
    \A w \in DOMAIN sources :
        CalledTwice(w) =>
            /\ ~coverLog[w][2].wrote
            /\ coverLog[w][2].ret = coverLog[w][1].ret

\* C13 amended: when the first call returned a path and the source's
\* modification time is not later than the time of that return, the second
\* call does not write the destination and returns the same path.
C13_SecondCallIsNoOpUnlessFuture ==
    \A w \in DOMAIN sources :
        (/\ CalledTwice(w)
         /\ coverLog[w][1].ret # NoPath
         /\ ~coverLog[w][1].future) =>
            /\ ~coverLog[w][2].wrote
            /\ coverLog[w][2].ret = coverLog[w][1].ret

\* C13 witness: a first call wrote the destination at the very time the
\* source was modified, and the second call returned the same path
\* without writing.
C13_Witness ==
    \E w \in DOMAIN sources :
        /\ CalledTwice(w)
        /\ sources[w].mtime = MaxClock
        /\ coverLog[w][1].wrote
        /\ ~coverLog[w][2].wrote
        /\ coverLog[w][2].ret = DestName(w)

\* C14: what a call returns for its source is the normalized image of that
\* source, whichever caller wrote the output path.
C14_OutputIsFunctionOfSource ==
    \A w \in DOMAIN sources : \A k \in DOMAIN coverLog[w] :
        coverLog[w][k].ret # NoPath => coverLog[w][k].got = Normalized(w)

\* ------------------------------------- parse_parents and the folder tree

\* The rows Parents.xml may hold.
AllRows ==
    [platform_name : PlatNames \cup {Empty}, playlist_id : PlaylistIds \cup {Empty},
     cat_name : CatNames \cup {Empty}, parent_platform : PlatNames \cup {Empty},
     parent_cat : CatNames \cup {Empty}]

ChildFields(r) ==
    (IF r.platform_name # Empty THEN 1 ELSE 0) + (IF r.playlist_id # Empty THEN 1 ELSE 0)
        + (IF r.cat_name # Empty THEN 1 ELSE 0)

ParentFields(r) ==
    (IF r.parent_platform # Empty THEN 1 ELSE 0) + (IF r.parent_cat # Empty THEN 1 ELSE 0)

\* The rows used: a category alone; one child under one parent; a playlist
\* under a category and a platform at once; a category and a playlist under
\* one parent category.
RowKinds ==
    {r \in AllRows :
        \/ IsRootRow(r)
        \/ /\ ChildFields(r) = 1 /\ ParentFields(r) = 1
           /\ ~(r.cat_name # Empty /\ r.parent_platform # Empty)
        \/ ChildFields(r) = 1 /\ r.playlist_id # Empty /\ ParentFields(r) = 2
        \/ /\ ChildFields(r) = 2 /\ r.cat_name # Empty /\ r.playlist_id # Empty
           /\ ParentFields(r) = 1 /\ r.parent_cat # Empty}

\* A Playlist of parse_playlists (lines 1066-1072): a fresh uuid4, the name
\* and the member ids; playlist "b" has one member.
Playlist(id) ==
    [Id |-> <<0>> \o Codes(id), Name |-> id,
     GameIds |-> IF id = <<"b">> THEN <<<<7, 1>>>> ELSE <<>>]

PlaylistMaps ==
    {[id \in known |-> Playlist(id)] : known \in {PlaylistIds, {<<"a">>}}}

\* games_by_platform_norm after the merge of lines 1343-1349: no platform
\* file for the platform, or a file with two games.
GamesMaps ==
    {<<>>, [nk \in {<<"c">>} |-> <<<<7, 2>>, <<7, 1>>>>]}

TreeInit ==
    /\ parentsFile \in {"missing", "malformed", "ok"}
    /\ rows \in SeqsUpTo(RowKinds, MaxRows)
    /\ (parentsFile # "ok" => rows = <<>>)
    /\ playlistFiles = <<>>
    /\ playlists = <<>>
    /\ playlists_by_lb_id \in PlaylistMaps
    /\ games_by_platform_norm \in GamesMaps
    /\ rowIdx = 1
    /\ edges = NoEdges
    /\ treePc = "parse"
    /\ folderTree = <<>>

InitTree ==
    /\ OrchIdleButGames /\ DlIdle /\ title = <<>> /\ FuzzyIdle /\ CandIdle
    /\ FirstIdle /\ CoverIdle /\ GameIdle
    /\ TreeInit

\* Lines 1112-1121.
ParseMissing ==
    /\ treePc = "parse"
    /\ parentsFile = "missing"
    /\ treePc' = "parsed"
    /\ UNCHANGED <<orchVars, exceptTree, dlVars, fzVars, candVars, title, parentsFile, rows,
                   playlistFiles, playlists, playlists_by_lb_id, rowIdx, edges, folderTree>>

\* Line 1123: ElementTree.parse raises on a file that is not XML.
ParseMalformed ==
    /\ treePc = "parse"
    /\ parentsFile = "malformed"
    /\ treePc' = "ParseError"
    /\ UNCHANGED <<orchVars, exceptTree, dlVars, fzVars, candVars, title, parentsFile, rows,
                   playlistFiles, playlists, playlists_by_lb_id, rowIdx, edges, folderTree>>

\* Lines 1135-1165: the loop body for the next row.
ParseRow ==
    /\ treePc = "parse"
    /\ parentsFile = "ok"
    /\ rowIdx <= Len(rows)
    /\ edges' = RowEffect(edges, rows[rowIdx], DOMAIN playlists_by_lb_id)
    /\ rowIdx' = rowIdx + 1
    /\ UNCHANGED <<orchVars, exceptTree, dlVars, fzVars, candVars, title, parentsFile, rows,
                   playlistFiles, playlists, playlists_by_lb_id, treePc, folderTree>>

\* Lines 1167-1174.
ParseReturn ==
    /\ treePc = "parse"
    /\ parentsFile = "ok"
    /\ rowIdx > Len(rows)
    /\ treePc' = "parsed"
    /\ UNCHANGED <<orchVars, exceptTree, dlVars, fzVars, candVars, title, parentsFile, rows,
                   playlistFiles, playlists, playlists_by_lb_id, rowIdx, edges, folderTree>>

\* Lines 1371-1377: the root category is unknown, no tree is built.
TreeSkip ==
    /\ treePc = "parsed"
    /\ ~RootKnown(ROOT_CATEGORY_NAME, edges)
    /\ treePc' = "skipped"
    /\ UNCHANGED <<orchVars, exceptTree, dlVars, fzVars, candVars, title, parentsFile, rows,
                   playlistFiles, playlists, playlists_by_lb_id, rowIdx, edges, folderTree>>

\* What build_folder_tree_from_parents works on.
BuildEnv(order) ==
    [maps |-> edges, playlists |-> playlists_by_lb_id, games |-> games_by_platform_norm,
     order |-> order, limit |-> RecursionLimit]

\* Lines 1378-1388: the tree is built, or the expansion exceeds the
\* recursion limit and RecursionError leaves import_launchbox_exo.
TreeBuild ==
    /\ treePc = "parsed"
    /\ RootKnown(ROOT_CATEGORY_NAME, edges)
    /\ \E order \in Orders(PlaylistIds \cup PlatNames) :
          LET tree == build_folder_tree_from_parents(ROOT_CATEGORY_NAME, BuildEnv(order))
          IN  IF IsError(tree)
                THEN treePc' = "RecursionError" /\ UNCHANGED folderTree
                ELSE treePc' = "built" /\ folderTree' = <<tree>>
    /\ UNCHANGED <<orchVars, exceptTree, dlVars, fzVars, candVars, title, parentsFile, rows,
                   playlistFiles, playlists, playlists_by_lb_id, rowIdx, edges>>

NextTree ==
    ParseMissing \/ ParseMalformed \/ ParseRow \/ ParseReturn \/ TreeSkip \/ TreeBuild

SpecTree == InitTree /\ [][NextTree]_vars

\* ------------------------------------------ claims: parse_parents, the tree

\* The edges a defaultdict(set) holds, as (key, value) pairs.
EdgeSet(d) == UNION {{<<k, v>> : v \in d[k]} : k \in DOMAIN d}

\* The folder and every folder below it.
RECURSIVE AllFolders(_)
AllFolders(f) ==
    {f} \cup (IF "Children" \in DOMAIN f
                THEN UNION {AllFolders(f.Children[n]) : n \in DOMAIN f.Children}
                ELSE {})

\* Playlist folders carry the Id of their Playlist; category and platform
\* folders are told apart by their names.
IsPlaylistFolder(f) == Head(f.Id) = 0
IsCategoryFolder(f) == ~IsPlaylistFolder(f) /\ f.Name \in CatNames
IsPlatformFolder(f) == ~IsPlaylistFolder(f) /\ f.Name \in PlatNames

OnlyCatAndParent(r) ==
    /\ r.cat_name # Empty /\ r.parent_cat # Empty
    /\ r.platform_name = Empty /\ r.playlist_id = Empty /\ r.parent_platform = Empty

\* C15: a row whose only non-empty fields are the category name and the
\* parent category name adds the one edge parent category -> category to the
\* category->subcategory map, and nothing to the root categories nor to the
\* four other maps.
C15_CategoryRowAddsOneEdge ==
    [][(/\ treePc = "parse"
        /\ rowIdx \in DOMAIN rows
        /\ rowIdx' = rowIdx + 1
        /\ OnlyCatAndParent(rows[rowIdx]))
       => /\ EdgeSet(edges'.category_children_categories)
                = EdgeSet(edges.category_children_categories)
                    \cup {<<rows[rowIdx].parent_cat, rows[rowIdx].cat_name>>}
          /\ edges'.root_categories = edges.root_categories
          /\ edges'.category_children_platforms = edges.category_children_platforms
          /\ edges'.category_children_playlists = edges.category_children_playlists
          /\ edges'.platform_children_platforms = edges.platform_children_platforms
          /\ edges'.platform_children_playlists = edges.platform_children_playlists]_vars

\* C15 witness: the first row names only a category and its parent category,
\* and after it the maps hold that edge and nothing else.
C15_Witness ==
    /\ treePc = "parse"
    /\ rowIdx = 2
    /\ OnlyCatAndParent(rows[1])
    /\ EdgeSet(edges.category_children_categories)
          = {<<rows[1].parent_cat, rows[1].cat_name>>}
    /\ edges.root_categories = {}
    /\ edges.category_children_platforms = <<>>
    /\ edges.category_children_playlists = <<>>
    /\ edges.platform_children_platforms = <<>>
    /\ edges.platform_children_playlists = <<>>

KnownPlaylists == DOMAIN playlists_by_lb_id

\* C16: every playlist id in the category->playlist and platform->playlist
\* maps is a key of playlists_by_lb_id, and every playlist folder of the built
\* tree is the folder of a playlist of playlists_by_lb_id.
C16_EdgePlaylistsAreKnown ==
    /\ \A e \in EdgeSet(edges.category_children_playlists) : e[2] \in KnownPlaylists
    /\ \A e \in EdgeSet(edges.platform_children_playlists) : e[2] \in KnownPlaylists
    /\ treePc = "built" =>
          \A f \in AllFolders(folderTree[1]) :
              IsPlaylistFolder(f) =>
                  \E id \in KnownPlaylists : f.Id = playlists_by_lb_id[id].Id

\* C16 witness: the rows attach an unknown playlist and a known one to the
\* root category; the tree is built and holds the folder of the known one.
C16_Witness ==
    /\ treePc = "built"
    /\ \E n \in DOMAIN rows :
          /\ rows[n].playlist_id # Empty
          /\ rows[n].playlist_id \notin KnownPlaylists
          /\ rows[n].parent_cat = ROOT_CATEGORY_NAME
    /\ \E n \in DOMAIN rows :
          /\ rows[n].playlist_id \in KnownPlaylists
          /\ rows[n].parent_cat = ROOT_CATEGORY_NAME
    /\ \E f \in AllFolders(folderTree[1]) : IsPlaylistFolder(f)

\* The known playlist ids the rows attach to category cat, each once, in the
\* order of the rows that attach them, from row n on.
RECURSIVE Encountered(_, _, _)
Encountered(cat, n, seen) ==
    IF n > Len(rows) THEN <<>>
    ELSE LET r == rows[n]
             hit == /\ r.playlist_id \in KnownPlaylists
                    /\ r.parent_cat = cat
                    /\ r.playlist_id \notin seen
         IN  (IF hit THEN <<r.playlist_id>> ELSE <<>>)
                \o Encountered(cat, n + 1, IF hit THEN seen \cup {r.playlist_id} ELSE seen)

\* The folders of playlists are named by the playlist ids.
ChildNames(f) ==
    IF "Children" \in DOMAIN f THEN [n \in DOMAIN f.Children |-> f.Children[n].Name]
    ELSE <<>>

\* C17: the children of every category folder of the built tree are its
\* subcategories sorted by name, then its platforms sorted by name, then its
\* playlists in the order their rows come in Parents.xml.
C17_ChildrenOrder ==
    treePc = "built" =>
        \A f \in AllFolders(folderTree[1]) :
            IsCategoryFolder(f) =>
                ChildNames(f)
                    = SortedNames(GetSet(edges.category_children_categories, f.Name))
                        \o SortedNames(GetSet(edges.category_children_platforms, f.Name))
                        \o Encountered(f.Name, 1, {})

\* The platform has a game of its own: a platform file of that normalized
\* name gave at least one record.
OwnsGames(platform_name) ==
    /\ norm_key(platform_name) \in DOMAIN games_by_platform_norm
    /\ games_by_platform_norm[norm_key(platform_name)] # <<>>

\* C18: in the built tree only playlist folders and the folders of platforms
\* that own at least one game carry GameIds.
C18_GameIdsOnlyWithGames ==
    folderTree # <<>> =>
        \A f \in AllFolders(folderTree[1]) :
            "GameIds" \in DOMAIN f =>
                \/ IsPlaylistFolder(f)
                \/ IsPlatformFolder(f) /\ OwnsGames(f.Name)

\* Parents.xml was read: import_launchbox_exo is past line 1369.
ParentsRead == mainPc \in {"done", "RecursionError"}

\* The root category name is a recorded root category, or a category that
\* rows name as the parent of a subcategory.
RootNamed ==
    \/ ROOT_CATEGORY_NAME \in edges.root_categories
    \/ \E e \in EdgeSet(edges.category_children_categories) : e[1] = ROOT_CATEGORY_NAME

\* C19: a missing Parents.xml names no category; and when Parents.xml names
\* the root category neither as a root category nor as the parent of a
\* subcategory, no tree is built and no folder output is written, the games
\* and the playlists are written, and the run ends without an error.
C19_NoRootNoTree ==
    /\ (ParentsRead /\ parentsFile = "missing") => ~RootNamed
    /\ (ParentsRead /\ ~RootNamed) =>
          /\ mainPc = "done"
          /\ error = NoError
          /\ folderTree = <<>>
          /\ outputs = {"games", "playlists"}

\* C19 witness: Parents.xml is there and names the root category only as the
\* child of another category; the run ended with the records of a platform
\* file written and no folder output.
C19_Witness ==
    /\ mainPc = "done"
    /\ parentsFile = "ok"
    /\ \E n \in DOMAIN rows : rows[n].cat_name = ROOT_CATEGORY_NAME
    /\ ~RootNamed
    /\ Len(playnite_games) >= 1
    /\ outputs = {"games", "playlists"}
    /\ error = NoError

\* Parents.xml is missing and the run ended the same way.
C19_WitnessMissing ==
    /\ mainPc = "done"
    /\ parentsFile = "missing"
    /\ outputs = {"games", "playlists"}
    /\ error = NoError

\* The categories and platforms as nodes, and the nodes a node's folder
\* expands: a category its subcategories and platforms, a platform its
\* sub-platforms (playlist folders expand nothing).
CatNode(name) == <<"category", name>>
PlatNode(name) == <<"platform", name>>

Expands(n) ==
    IF n[1] = "category"
      THEN {CatNode(c) : c \in GetSet(edges.category_children_categories, n[2])}
              \cup {PlatNode(q) : q \in GetSet(edges.category_children_platforms, n[2])}
      ELSE {PlatNode(q) : q \in GetSet(edges.platform_children_platforms, n[2])}

RECURSIVE ReachFrom(_)
ReachFrom(S) ==
    LET T == S \cup UNION {Expands(n) : n \in S}
    IN  IF T = S THEN S ELSE ReachFrom(T)

OnCycle(n) == n \in ReachFrom(Expands(n))

CycleReachable == \E n \in ReachFrom({CatNode(ROOT_CATEGORY_NAME)}) : OnCycle(n)

\* C20: the expansion of the root category ends with a tree only when no
\* category or platform reachable from the root is reachable from itself, and
\* ends without one (the nesting of the calls grows until the interpreter
\* stops it) only when there is one.
C20_TreeIffNoReachableCycle ==
    /\ treePc = "built" => ~CycleReachable /\ Len(folderTree) = 1
    /\ treePc = "RecursionError" => CycleReachable /\ folderTree = <<>>

\* C20 witness: the rows make the root category its own descendant, and the
\* expansion has ended without a tree.
C20_Witness ==
    /\ treePc = "RecursionError"
    /\ OnCycle(CatNode(ROOT_CATEGORY_NAME))
    /\ folderTree = <<>>

\* The rows hold no cycle and the tree was built three folders deep.
C20_WitnessTree ==
    /\ treePc = "built"
    /\ ~CycleReachable
    /\ \E f \in AllFolders(folderTree[1]) : Len(f.Id) = 5

\* ------------------------------------------------- claims: parse_playlists

\* parse_playlists has returned and the playlists were dumped.
PlaylistsDumped == "playlists" \in outputs

\* The playlists of the output that carry the LaunchBox id of the file.
PlaylistsOf(file) ==
    {k \in DOMAIN playlists : playlists[k].LaunchBoxId = file.lb_id}

\* C21: every playlist file that holds a LaunchBox id of the playlist, in
\* <Id> or in <ID>, gives exactly one playlist of the playlists output, also
\* when none of its members is the LaunchBox id of a game.
C21_OnePlaylistPerFile ==
    PlaylistsDumped =>
        \A n \in DOMAIN playlistFiles :
            playlistFiles[n].tag \in {"Id", "ID"} =>
                Cardinality(PlaylistsOf(playlistFiles[n])) = 1

\* The LaunchBox id is the id of a record of the Records list.
Seen(lb_game_id) ==
    \E n \in DOMAIN playnite_games : playnite_games[n].LaunchBoxId = lb_game_id

\* ids are, one by one and in this order, ids of records that carry the
\* LaunchBox ids lb_ids.
RecordIdsOf(ids, lb_ids) ==
    /\ Len(ids) = Len(lb_ids)
    /\ \A k \in DOMAIN ids :
          \E n \in DOMAIN playnite_games :
              /\ playnite_games[n].Id = ids[k]
              /\ playnite_games[n].LaunchBoxId = lb_ids[k]

NoneValue == <<"None">>
Str(s) == <<"str", s>>
List(q) == <<"list", q>>
Dict(d) == <<"dict", d>>

\* v == "" or v == None or v == [] or v == {}
IsEmptyValue(v) ==
    \/ v[1] = "None"
    \/ v[1] \in {"str", "list"} /\ v[2] = <<>>
    \/ v[1] = "dict" /\ DOMAIN v[2] = {}

\* bool(v)
Truthy(v) == ~IsEmptyValue(v)

\* v or w
OrElse(v, w) == IF Truthy(v) THEN v ELSE w

\* A child element of <Game>: missing, or there with its text (no text and
\* the empty text are the same to the code).
NoField == [present |-> FALSE, text |-> <<>>]
Field(text) == [present |-> TRUE, text |-> text]

\* Lines 867-871.
get(elem, tag) ==
    IF elem[tag].present /\ elem[tag].text # <<>> THEN Str(Strip(elem[tag].text))
    ELSE NoneValue

\* str.split(";"), with `cur` the piece under way.
RECURSIVE Split(_, _)
Split(s, cur) ==
    IF s = <<>> THEN <<cur>>
    ELSE IF Head(s) = ";" THEN <<cur>> \o Split(Tail(s), <<>>)
    ELSE Split(Tail(s), Append(cur, Head(s)))

NonEmpty(s) == s # <<>>

\* Line 893.
Genres(genre_raw) ==
    LET pieces == Split(genre_raw, <<>>)
        kept == SelectSeq([k \in DOMAIN pieces |-> Strip(pieces[k])], NonEmpty)
    IN  [k \in DOMAIN kept |-> Str(kept[k])]

\* str(Path(exe_path).parent) of a path without a directory part.
Parent(path) == <<".">>

\* Line 928.
DropEmpty(d) == [k \in {x \in DOMAIN d : ~IsEmptyValue(d[x])} |-> d[k]]

\* The optional keys of lines 899-926.
Optional(key, value) == IF Truthy(value) THEN key :> value ELSE <<>>

\* Lines 854-928; `media` is what collect_images, collect_videos and
\* collect_manual gave, "id" stands for the fresh uuid4.
parse_launchbox_game(elem, media, platform_name) ==
    LET game_title == OrElse(get(elem, "Title"), Str(<<"U">>))
        sort_title == OrElse(get(elem, "SortTitle"), game_title)
        release_date == get(elem, "ReleaseDate")
        developer == get(elem, "Developer")
        publisher == get(elem, "Publisher")
        genre_raw == get(elem, "Genre")
        description == get(elem, "Notes")
        rom_path == get(elem, "RomPath")
        exe_path == get(elem, "ApplicationPath")
        base ==
            [Id |-> Str(<<"i", "d">>),
             Name |-> game_title,
             SortingName |-> sort_title,
             Platform |-> Str(platform_name),
             ReleaseYear |-> IF Truthy(release_date)
                               THEN Str(SubSeq(release_date[2], 1,
                                               Min(4, Len(release_date[2]))))
                               ELSE NoneValue,
             Developers |-> IF Truthy(developer) THEN List(<<developer>>) ELSE List(<<>>),
             Publishers |-> IF Truthy(publisher) THEN List(<<publisher>>) ELSE List(<<>>),
             Genres |-> IF Truthy(genre_raw) THEN List(Genres(genre_raw[2])) ELSE List(<<>>),
             Description |-> description]
        roms == IF Truthy(rom_path)
                  THEN "Roms" :> List(<<Dict([Path |-> rom_path])>>) ELSE <<>>
        action == IF Truthy(exe_path)
                    THEN "PlayAction" :>
                            Dict([Path |-> exe_path,
                                  Arguments |-> OrElse(get(elem, "CommandLine"), Str(<<>>)),
                                  WorkingDir |-> Str(Parent(exe_path[2]))])
                    ELSE <<>>
    IN  DropEmpty(base @@ roms @@ action
                    @@ Optional("Image", media.cover)
                    @@ Optional("BackgroundImage", media.background)
                    @@ Optional("Icon", media.icon)
                    @@ Optional("Screenshots", media.screenshots)
                    @@ Optional("Videos", media.videos)
                    @@ Optional("Manual", media.manual))

\* Lines 966-968: find("ID"), and find("Id") when that is None.
lb_id_elem(elem) == IF elem["ID"].present THEN elem["ID"] ELSE elem["Id"]

\* Lines 969-972.
WithLaunchBoxId(g, elem) ==
    LET e == lb_id_elem(elem)
    IN  IF e.present /\ e.text # <<>>
          THEN [k \in DOMAIN g \cup {"LaunchBoxId"} |->
                   IF k = "LaunchBoxId" THEN Str(Strip(e.text)) ELSE g[k]]
          ELSE g

\* The texts of the child elements of the <Game> elements parsed.
Blank == Field(<<" ">>)
Text == Field(<<"a">>)

GameElems ==
    [Title : {NoField, Blank, Text}, SortTitle : {NoField, Text},
     ReleaseDate : {NoField, Blank, Text}, Developer : {NoField, Blank, Text},
     Publisher : {NoField, Text},
     Genre : {NoField, Field(<<";">>), Field(<<"a", ";", " ">>)},
     Notes : {Blank, Text}, RomPath : {NoField, Text},
     ApplicationPath : {NoField, Text}, CommandLine : {NoField, Blank, Text},
     ID : {NoField, Blank, Text}, Id : {NoField, Text}]

\* What the media lookups gave: nothing, or everything.
NoMedia ==
    [cover |-> NoneValue, background |-> NoneValue, icon |-> NoneValue,
     screenshots |-> List(<<>>), videos |-> List(<<>>), manual |-> NoneValue]
AllMedia ==
    [cover |-> Str(<<"c">>), background |-> Str(<<"b">>), icon |-> Str(<<"c">>),
     screenshots |-> List(<<Str(<<"d">>)>>), videos |-> List(<<Str(<<"d">>)>>),
     manual |-> Str(<<"d">>)]

GameInit ==
    /\ gameElem \in [elem : GameElems, media : {NoMedia, AllMedia}]
    /\ game = <<>>
    /\ gamePc = "called"

InitGame ==
    /\ OrchIdle /\ DlIdle /\ title = <<>> /\ FuzzyIdle /\ CandIdle
    /\ FirstIdle /\ CoverIdle /\ TreeIdle
    /\ GameInit

\* Line 964.
ParseGame ==
    /\ gamePc = "called"
    /\ game' = parse_launchbox_game(gameElem.elem, gameElem.media, FileStem(1))
    /\ gamePc' = "parsed"
    /\ UNCHANGED <<orchVars, exceptGame, dlVars, fzVars, candVars, title, gameElem>>

\* Lines 966-974.
AppendGame ==
    /\ gamePc = "parsed"
    /\ game' = WithLaunchBoxId(game, gameElem.elem)
    /\ gamePc' = "appended"
    /\ UNCHANGED <<orchVars, exceptGame, dlVars, fzVars, candVars, title, gameElem>>

NextGame == ParseGame \/ AppendGame

SpecGame == InitGame /\ [][NextGame]_vars

\* -------------------------------------------- claims: parse_launchbox_game

RequiredKeys == {"Id", "Name", "SortingName", "Platform"}

AllOptionalEmpty ==
    /\ \A tag \in DOMAIN gameElem.elem \ {"Title"} :
          ~gameElem.elem[tag].present \/ Strip(gameElem.elem[tag].text) = <<>>
    /\ gameElem.media = NoMedia

\* C23: no key of a record appended to the games of a platform file has the
\* value None, "", [] or {}; and the record of a <Game> whose optional
\* fields are all empty has only the required keys.
C23_NoEmptyValue ==
    gamePc = "appended" =>
        /\ \A k \in DOMAIN game : ~IsEmptyValue(game[k])
        /\ AllOptionalEmpty => DOMAIN game = RequiredKeys

\* ------------------------------------- claims: the configuration errors

ConfigurationError == ~dirExists \/ Len(platform_files) = 0

\* C24: with the platforms directory missing or without a platform file the
\* run goes only from its start to SystemExit: no manager, queue, listener or
\* worker is ever started, nothing is merged and no output is written.
C24_ConfigErrorAbortsFirst ==
    ConfigurationError =>
        /\ mainPc \in {"start", "SystemExit"}
        /\ (mainPc = "start" => ENABLED ConfigError /\ ~ENABLED StartStage)
        /\ (mainPc = "SystemExit" => error.type = "SystemExit" /\ ~ENABLED Next)
        /\ manager = "none"
        /\ listenerPc = "unstarted"
        /\ worker_count = 0
        /\ \A i \in Files : taskPc[i] = "idle"
        /\ progress_queue = <<>>
        /\ resultQ = <<>>
        /\ playnite_games = <<>>
        /\ outputs = {}

\* C24 witness: the directory is there without a platform file, and the run
\* has ended with SystemExit.
C24_Witness ==
    /\ dirExists
    /\ Len(platform_files) = 0
    /\ mainPc = "SystemExit"
    /\ error.text = "No platform XML files found"
    /\ outputs = {}

\* The directory is missing.
C24_WitnessNoDir ==
    /\ ~dirExists
    /\ mainPc = "SystemExit"
    /\ error.text = "Platforms dir not found"

\* ------------------------------------------------ claims: the folder ids

\* The Id of the folder and of every folder below it, one entry for each
\* folder.
RECURSIVE FolderIds(_)
RECURSIVE FolderIdsOf(_)
FolderIds(f) ==
    <<f.Id>> \o (IF "Children" \in DOMAIN f THEN FolderIdsOf(f.Children) ELSE <<>>)
FolderIdsOf(fs) ==
    IF fs = <<>> THEN <<>> ELSE FolderIds(Head(fs)) \o FolderIdsOf(Tail(fs))

\* C25: no two folders of the built tree have the same Id, also when a
\* platform or a playlist is attached under more than one parent.
C25_FolderIdsDistinct ==
    folderTree # <<>> => NoDuplicate(FolderIds(folderTree[1]))

====
